---- MODULE Spec2Model ----
(***************************************************************************)
(* A model of backend/app/main.py (with oauth_login.py, oauth_tokens.py):  *)
(* the OAuth PKCE login handlers and the vibe -> tracks -> playlist        *)
(* pipeline, over the three process-wide stores PKCE_STORE, TOKEN_STORE    *)
(* and USER_TASTE.                                                         *)
(*                                                                         *)
(* Handlers declared `async def` run on one event loop: the code between   *)
(* two awaits is one atomic step, and a step of another request may come   *)
(* between the sending of an external call and the handling of its answer. *)
(* Every external answer is an input of the step that handles it.          *)
(* Handlers declared `def` (taste_accept, vibe_parse) run on worker        *)
(* threads: calls interleave between the atomic operations on a dict or a  *)
(* set.                                                                    *)
(*                                                                         *)
(* Specifications: Spec (login), SpecTaste (taste memory), SpecPipeline    *)
(* (one generate request), SpecResolver (a request with a long suggestion  *)
(* list), SpecFetch (the feature fetch) and SpecHelpers (the pure helpers, *)
(* each called on its own).                                                *)
(*                                                                         *)
(* Strings the code inspects (URIs, queries, names, vibe texts) are tuples *)
(* of one-character strings, so that startswith, strip, replace, lower and *)
(* split are computed, not assumed.                                        *)
(*                                                                         *)
(* Not modelled: wall-clock values ("ts", "exp_ts"), which the code writes *)
(* and never reads.                                                        *)
(***************************************************************************)
EXTENDS Integers, Sequences, FiniteSets, TLC

(***************************************************************************)
(* Bounds of the model.                                                    *)
(***************************************************************************)
\* number of /auth/login calls
MaxLogins == 2
\* number of /auth/callback calls
MaxCallbacks == 3

(***************************************************************************)
(* Input pools.                                                            *)
(***************************************************************************)
Users == {"u1", "u2"}

\* outcomes of secrets.token_bytes(64) seen through gen_code_verifier
Verifiers == {"v1", "v2"}

\* the `code` query parameter: absent/empty, or an authorization code
Codes == {"", "code"}

\* the `state` query parameter: 0 is absent, -1 a token never issued,
\* 1..MaxLogins the tokens auth_login hands out
StateInputs == (-1) .. MaxLogins

VARIABLES
    PKCE_STORE,     \* state -> [verifier]                     (main.py:42)
    TOKEN_STORE,    \* "spotify:{id}" -> credential record      (main.py:43)
    USER_TASTE,     \* "spotify:{id}" -> liked artists/genres   (main.py:44)
    issued,         \* number of state tokens handed out so far
    auth_urls,      \* the redirects auth_login answered with
    cb,             \* the auth_callback invocations, in order of arrival
    token_reqs,     \* the requests sent to the token endpoint, in order
    top,            \* the frame of top_artists
    gen,            \* the frame of vibe_generate_llm
    af,             \* the frame of fetch_audio_features
    pw,             \* the frame of create_playlist_from_tracks
    oc,             \* the frame of one_click_playlist
    calls,          \* the catalog API calls sent, in order, with their answers
    playlists,      \* the catalog's playlists created so far: their tracks
    ta,             \* the taste_accept invocations, in order of arrival
    fn              \* the frame of a helper or of vibe_parse, called on its own

authVars == <<PKCE_STORE, issued, auth_urls, cb, token_reqs>>
pipeVars == <<top, gen, af, pw, oc, calls, playlists>>
vars == <<PKCE_STORE, TOKEN_STORE, USER_TASTE, issued, auth_urls, cb, token_reqs,
          top, gen, af, pw, oc, calls, playlists, ta, fn>>

(***************************************************************************)
(* Python dict helpers.                                                    *)
(***************************************************************************)
\* the empty dict
EmptyDict == [k \in {} |-> {}]

\* d[k] = v
DictSet(d, k, v) == [x \in DOMAIN d \cup {k} |-> IF x = k THEN v ELSE d[x]]

\* d without key k
DictDel(d, k) == [x \in DOMAIN d \ {k} |-> d[x]]

(***************************************************************************)
(* Python str and list operations, on tuples of one-character strings.     *)
(***************************************************************************)
UpperCase == <<"A", "B", "C", "D", "E", "F", "G", "H", "I", "J", "K", "L", "M", "N", "O", "P", "Q", "R", "S", "T", "U", "V", "W", "X", "Y", "Z">>
LowerCase == <<"a", "b", "c", "d", "e", "f", "g", "h", "i", "j", "k", "l", "m", "n", "o", "p", "q", "r", "s", "t", "u", "v", "w", "x", "y", "z">>
Whitespace == {" ", "\t", "\n"}

\* str.lower()
LowerChar(c) ==
    IF \E k \in 1 .. Len(UpperCase) : UpperCase[k] = c
    THEN LowerCase[CHOOSE k \in 1 .. Len(UpperCase) : UpperCase[k] = c]
    ELSE c

Lower(s) == [k \in 1 .. Len(s) |-> LowerChar(s[k])]

\* str.startswith(prefix)
StartsWith(s, prefix) ==
    /\ Len(prefix) <= Len(s)
    /\ \A k \in 1 .. Len(prefix) : s[k] = prefix[k]

\* `k in t` for strings: k occurs in t as a substring
Contains(t, k) ==
    \E off \in 0 .. (Len(t) - Len(k)) : \A n \in 1 .. Len(k) : t[off + n] = k[n]

\* str.strip()
RECURSIVE LStrip(_)
LStrip(s) == IF s # <<>> /\ Head(s) \in Whitespace THEN LStrip(Tail(s)) ELSE s

RECURSIVE RStrip(_)
RStrip(s) ==
    IF s # <<>> /\ s[Len(s)] \in Whitespace THEN RStrip(SubSeq(s, 1, Len(s) - 1)) ELSE s

Strip(s) == RStrip(LStrip(s))

\* str.replace(ch, '')
RECURSIVE RemoveChar(_, _)
RemoveChar(s, ch) ==
    IF s = <<>> THEN <<>>
    ELSE (IF Head(s) = ch THEN <<>> ELSE <<Head(s)>>) \o RemoveChar(Tail(s), ch)

\* str.split(sep) for a one-character separator: always at least one piece
RECURSIVE SplitFrom(_, _, _)
SplitFrom(s, sep, piece) ==
    IF s = <<>> THEN <<piece>>
    ELSE IF Head(s) = sep THEN <<piece>> \o SplitFrom(Tail(s), sep, <<>>)
    ELSE SplitFrom(Tail(s), sep, Append(piece, Head(s)))

Split(s, sep) == SplitFrom(s, sep, <<>>)

\* sep.join(parts)
RECURSIVE Join(_, _)
Join(parts, sep) ==
    IF parts = <<>> THEN <<>>
    ELSE IF Len(parts) = 1 THEN parts[1]
    ELSE parts[1] \o sep \o Join(Tail(parts), sep)

\* seq[:n], for any integer n
SliceTo(seq, n) ==
    IF n >= 0 THEN SubSeq(seq, 1, IF n < Len(seq) THEN n ELSE Len(seq))
    ELSE SubSeq(seq, 1, Len(seq) + n)

\* seq[i:i+n], for i >= 0 (0-based) and n > 0
Chunk(seq, i, n) == SubSeq(seq, i + 1, IF i + n < Len(seq) THEN i + n ELSE Len(seq))

\* max(a, b)
Max(a, b) == IF a >= b THEN a ELSE b

\* the set of a sequence's elements
Range(seq) == {seq[k] : k \in 1 .. Len(seq)}

(***************************************************************************)
(* oauth_login.py                                                          *)
(***************************************************************************)
\* code_challenge: the URL-safe SHA-256 digest of the verifier; a one-way
\* function of the verifier, distinct verifiers giving distinct challenges
code_challenge(verifier) == <<"S256", verifier>>

\* build_auth_url: the parameters of the authorization URL that vary
build_auth_url(state, challenge) ==
    [state |-> state, code_challenge |-> challenge, code_challenge_method |-> "S256"]

(***************************************************************************)
(* auth_login (main.py:60-67).  secrets.token_urlsafe(16) is a fresh token:*)
(* 128 random bits never repeat in a process lifetime; the tokens are      *)
(* named 1, 2, ... in the order they are handed out.  The handler is a     *)
(* plain `def` and runs on a worker thread; its one store write is a       *)
(* single dict assignment, atomic with respect to the event loop.          *)
(***************************************************************************)
auth_login ==
    /\ issued < MaxLogins
    /\ \E verifier \in Verifiers :
         LET state == issued + 1
             challenge == code_challenge(verifier)
         IN /\ PKCE_STORE' = DictSet(PKCE_STORE, state, [verifier |-> verifier])
            /\ auth_urls' = auth_urls \cup {build_auth_url(state, challenge)}
    /\ issued' = issued + 1
    /\ UNCHANGED <<TOKEN_STORE, USER_TASTE, cb, token_reqs, pipeVars, ta, fn>>

(***************************************************************************)
(* auth_callback (main.py:69-94), one step per await.                      *)
(***************************************************************************)
\* main.py:71  `not code or not state or state not in PKCE_STORE`
CallbackRejected(code, state, store) ==
    \/ code = ""
    \/ state = 0
    \/ state \notin DOMAIN store

\* main.py:75  what PKCE_STORE.pop(state) leaves in the store
PopState_KeepsEntry(store, state) == store

PopState(store, state) == DictDel(store, state)

\* a frame of auth_callback: its arguments, where it stands, its locals
CbFrame(code, state, pc, verifier) ==
    [code |-> code, state |-> state, pc |-> pc, verifier |-> verifier,
     access_token |-> 0, user |-> ""]

\* main.py:70-76  the call up to the first await: 400, or pop and exchange
auth_callback_Reject ==
    /\ Len(cb) < MaxCallbacks
    /\ \E code \in Codes, state \in StateInputs :
         /\ CallbackRejected(code, state, PKCE_STORE)
         /\ cb' = Append(cb, CbFrame(code, state, "http400", ""))
    /\ UNCHANGED <<PKCE_STORE, TOKEN_STORE, USER_TASTE, issued, auth_urls, token_reqs, pipeVars, ta, fn>>

auth_callback_Accept_LatestVerifier ==
    /\ Len(cb) < MaxCallbacks
    /\ \E code \in Codes, state \in StateInputs :
         /\ ~CallbackRejected(code, state, PKCE_STORE)
         /\ LET latest == CHOOSE s \in DOMAIN PKCE_STORE :
                              \A x \in DOMAIN PKCE_STORE : x <= s
                verifier == PKCE_STORE[latest].verifier
            IN /\ PKCE_STORE' = PopState(PKCE_STORE, state)
               /\ cb' = Append(cb, CbFrame(code, state, "exchange", verifier))
               /\ token_reqs' = Append(token_reqs,
                     [cb |-> Len(cb) + 1, state |-> state, code |-> code,
                      code_verifier |-> verifier])
    /\ UNCHANGED <<TOKEN_STORE, USER_TASTE, issued, auth_urls, pipeVars, ta, fn>>

auth_callback_Accept ==
    /\ Len(cb) < MaxCallbacks
    /\ \E code \in Codes, state \in StateInputs :
         /\ ~CallbackRejected(code, state, PKCE_STORE)
         /\ LET verifier == PKCE_STORE[state].verifier
            IN /\ PKCE_STORE' = PopState(PKCE_STORE, state)
               /\ cb' = Append(cb, CbFrame(code, state, "exchange", verifier))
               \* oauth_tokens.py:9-18  the POST to the token endpoint
               /\ token_reqs' = Append(token_reqs,
                     [cb |-> Len(cb) + 1, state |-> state, code |-> code,
                      code_verifier |-> verifier])
    /\ UNCHANGED <<TOKEN_STORE, USER_TASTE, issued, auth_urls, pipeVars, ta, fn>>

\* oauth_tokens.py:18-20, main.py:76-83  the token endpoint's answer.  A
\* non-2xx answer raises out of the handler (HTTP 500).  The endpoint issues
\* a new access token per exchange; the token is named by the index of the
\* callback that obtained it.
auth_callback_Exchanged_IgnoresFailure(i) ==
    /\ cb[i].pc = "exchange"
    /\ \E ok \in BOOLEAN :
         cb' = [cb EXCEPT ![i] =
                  IF ok THEN [@ EXCEPT !.pc = "profile", !.access_token = i]
                        ELSE [@ EXCEPT !.pc = "profile"]]
    /\ UNCHANGED <<PKCE_STORE, TOKEN_STORE, USER_TASTE, issued, auth_urls, token_reqs, pipeVars, ta, fn>>

auth_callback_Exchanged(i) ==
    /\ cb[i].pc = "exchange"
    /\ \E ok \in BOOLEAN :
         cb' = [cb EXCEPT ![i] =
                  IF ok THEN [@ EXCEPT !.pc = "profile", !.access_token = i]
                        ELSE [@ EXCEPT !.pc = "http500"]]
    /\ UNCHANGED <<PKCE_STORE, TOKEN_STORE, USER_TASTE, issued, auth_urls, token_reqs, pipeVars, ta, fn>>

\* main.py:87  key = f"spotify:{user['id']}"
Key(user) == <<"spotify", user>>

\* main.py:88-93  TOKEN_STORE[key] = {...}
StoreRecord_KeepsNewer(store, key, rec) ==
    IF key \in DOMAIN store /\ store[key].access_token > rec.access_token
    THEN store ELSE DictSet(store, key, rec)

StoreRecord(store, key, rec) == DictSet(store, key, rec)

\* main.py:84-94  the profile answer: raise (HTTP 500), or store and redirect
auth_callback_Profile(i) ==
    /\ cb[i].pc = "profile"
    /\ \/ /\ cb' = [cb EXCEPT ![i].pc = "http500"]
          /\ UNCHANGED TOKEN_STORE
       \/ \E user \in Users :
            /\ TOKEN_STORE' = StoreRecord(TOKEN_STORE, Key(user),
                  [access_token |-> cb[i].access_token, user |-> user])
            /\ cb' = [cb EXCEPT ![i].pc = "redirect", ![i].user = user]
    /\ UNCHANGED <<PKCE_STORE, USER_TASTE, issued, auth_urls, token_reqs, pipeVars, ta, fn>>

(***************************************************************************)
(* taste_accept (main.py:104-110).  The handler is a plain `def`: each     *)
(* request runs on a worker thread, and threads interleave between the     *)
(* operations on the shared dict and sets, each of which is atomic:        *)
(* setdefault, the add of one element in set.update (which draws the       *)
(* elements one by one from a generator), and each len().                  *)
(***************************************************************************)
\* number of /taste/accept calls
MaxSubmissions == 2

\* TasteIn.artistNames and TasteIn.genres
ArtistNameLists == {<<>>, <<<<"A", "b">>>>, <<<<"a", "B">>, <<"c", "d">>>>}

GenreLists == {<<>>, <<<<"P", "o", "p">>>>}

\* main.py:107  USER_TASTE.setdefault(key, default): the record under key
\* stays if there is one
SetDefault_Overwrites(store, key, default) == DictSet(store, key, default)

SetDefault(store, key, default) ==
    IF key \in DOMAIN store THEN store ELSE DictSet(store, key, default)

\* where a frame stands after its local steps: at the next element to add,
\* or past both updates at the first len()
Advance(f) ==
    IF f.pc = "artists" /\ f.k = Len(f.artistNames)
    THEN (IF f.genres = <<>> THEN [f EXCEPT !.pc = "len_artists", !.k = 0]
                             ELSE [f EXCEPT !.pc = "genres", !.k = 0])
    ELSE IF f.pc = "genres" /\ f.k = Len(f.genres)
    THEN [f EXCEPT !.pc = "len_artists", !.k = 0]
    ELSE f

\* main.py:106-107  the call up to the setdefault
taste_accept_Call ==
    /\ Len(ta) < MaxSubmissions
    /\ \E user \in Users, artistNames \in ArtistNameLists, genres \in GenreLists :
         /\ USER_TASTE' = SetDefault(USER_TASTE, Key(user),
                                     [liked_artists |-> {}, liked_genres |-> {}])
         /\ ta' = Append(ta, Advance([user |-> user, artistNames |-> artistNames,
                                      genres |-> genres, pc |-> "artists", k |-> 0,
                                      counts |-> [liked_artists |-> 0, liked_genres |-> 0]]))
    /\ UNCHANGED <<PKCE_STORE, TOKEN_STORE, issued, auth_urls, cb, token_reqs, pipeVars, fn>>

\* main.py:108-109  set.update adds the next lower-cased element to the set
\* of the record found at the call
taste_accept_Update(i) ==
    /\ ta[i].pc \in {"artists", "genres"}
    /\ LET f == ta[i]
           key == Key(f.user)
       IN /\ USER_TASTE' =
                IF f.pc = "artists"
                THEN [USER_TASTE EXCEPT ![key].liked_artists =
                         @ \cup {Lower(f.artistNames[f.k + 1])}]
                ELSE [USER_TASTE EXCEPT ![key].liked_genres =
                         @ \cup {Lower(f.genres[f.k + 1])}]
          /\ ta' = [ta EXCEPT ![i] = Advance([f EXCEPT !.k = @ + 1])]
    /\ UNCHANGED <<PKCE_STORE, TOKEN_STORE, issued, auth_urls, cb, token_reqs, pipeVars, fn>>

\* main.py:110  the two len() of the answer, read one after the other
taste_accept_Return(i) ==
    /\ ta[i].pc \in {"len_artists", "len_genres"}
    /\ LET f == ta[i]
           rec == USER_TASTE[Key(f.user)]
       IN ta' = [ta EXCEPT ![i] =
                    IF f.pc = "len_artists"
                    THEN [f EXCEPT !.pc = "len_genres",
                                   !.counts.liked_artists = Cardinality(rec.liked_artists)]
                    ELSE [f EXCEPT !.pc = "done",
                                   !.counts.liked_genres = Cardinality(rec.liked_genres)]]
    /\ UNCHANGED <<PKCE_STORE, TOKEN_STORE, USER_TASTE, issued, auth_urls, cb,
                   token_reqs, pipeVars, fn>>

(***************************************************************************)
(* Program constants of the pipeline.                                      *)
(***************************************************************************)
\* main.py:295, 332  the top-artists limit
TopArtistLimit == 12
\* main.py:334  suggestions[: max(5, count * 2)]
MinSuggestionCap == 5
\* main.py:368  len(results) >= max(count, 20)
MinHeadroom == 20
\* main.py:247, 425  ids and URIs per catalog call
ChunkSize == 100

\* main.py:422, 451  "spotify:track:"
TrackUriPrefix == <<"s", "p", "o", "t", "i", "f", "y", ":", "t", "r", "a", "c", "k", ":">>

(***************************************************************************)
(* Re-ranking helpers (main.py:209-230).  Scores and audio features are    *)
(* counted in hundredths: 0.55 is 55, 2.0 is 200.  The sums are exact here *)
(* and rounded in the code's floats; what is checked of the ranking holds  *)
(* for any key.                                                            *)
(***************************************************************************)
\* main.py:209-217
target_audio_profile_FirstRuleWins(vibe_text) ==
    LET t == Lower(vibe_text)
        prof0 == [target_energy |-> 50, target_valence |-> 50, target_danceability |-> 50]
        prof1 == IF Contains(t, <<"h", "a", "p", "p", "y">>) THEN [prof0 EXCEPT !.target_valence = 80] ELSE prof0
        prof2 == IF Contains(t, <<"p", "a", "r", "t", "y">>) \/ Contains(t, <<"d", "a", "n", "c", "e">>)
                 THEN [target_energy |-> 80, target_valence |-> 70, target_danceability |-> 80]
                 ELSE prof1
        prof3 == IF Contains(t, <<"c", "h", "i", "l", "l">>) \/ Contains(t, <<"l", "o", "f", "i">>)
                 THEN [target_energy |-> 30, target_valence |-> 50, target_danceability |-> 50]
                 ELSE prof2
    IN IF Contains(t, <<"n", "i", "g", "h", "t", " ", "d", "r", "i", "v", "e">>) \/ Contains(t, <<"m", "o", "o", "d", "y">>)
       THEN [target_energy |-> 55, target_valence |-> 35, target_danceability |-> 60]
       ELSE prof3

target_audio_profile(vibe_text) ==
    LET t == Lower(vibe_text)
        prof0 == [target_energy |-> 50, target_valence |-> 50, target_danceability |-> 50]
        prof1 == IF Contains(t, <<"n", "i", "g", "h", "t", " ", "d", "r", "i", "v", "e">>) \/ Contains(t, <<"m", "o", "o", "d", "y">>)
                 THEN [target_energy |-> 55, target_valence |-> 35, target_danceability |-> 60]
                 ELSE prof0
        prof2 == IF Contains(t, <<"c", "h", "i", "l", "l">>) \/ Contains(t, <<"l", "o", "f", "i">>)
                 THEN [target_energy |-> 30, target_valence |-> 50, target_danceability |-> 50]
                 ELSE prof1
        prof3 == IF Contains(t, <<"p", "a", "r", "t", "y">>) \/ Contains(t, <<"d", "a", "n", "c", "e">>)
                 THEN [target_energy |-> 80, target_valence |-> 70, target_danceability |-> 80]
                 ELSE prof2
    IN IF Contains(t, <<"h", "a", "p", "p", "y">>) THEN [prof3 EXCEPT !.target_valence = 80] ELSE prof3

\* None
None == [none |-> TRUE]

\* a field of an audio-features object that the catalog left out
Missing == -1

\* af.get(field, 0.5)
GetOrHalf(value) == IF value = Missing THEN 50 ELSE value

\* abs(x)
Abs(x) == IF x < 0 THEN -x ELSE x

\* main.py:222  [a.strip().lower() for a in t.get("artist","").split(",")]
ArtistNames(t) ==
    LET parts == Split(t.artist, ",")
    IN [k \in 1 .. Len(parts) |-> Lower(Strip(parts[k]))]

\* main.py:219-230
score_track_NeutralWhenAbsent(t, feat, ctx) ==
    LET artist_names == Range(ArtistNames(t))
        s1 == IF artist_names \cap ctx.top_artists # {} THEN 200 ELSE 0
        s2 == IF artist_names \cap ctx.liked_artists # {} THEN 150 ELSE 0
        f == IF feat # None THEN feat
             ELSE [energy |-> Missing, valence |-> Missing, danceability |-> Missing]
    IN s1 + s2 + (100 - Abs(GetOrHalf(f.energy) - ctx.profile.target_energy))
               + (100 - Abs(GetOrHalf(f.valence) - ctx.profile.target_valence))
               + (100 - Abs(GetOrHalf(f.danceability) - ctx.profile.target_danceability))

score_track(t, feat, ctx) ==
    LET artist_names == Range(ArtistNames(t))
        s1 == IF artist_names \cap ctx.top_artists # {} THEN 200 ELSE 0
        s2 == IF artist_names \cap ctx.liked_artists # {} THEN 150 ELSE 0
        s3 == IF feat # None
              THEN (100 - Abs(GetOrHalf(feat.energy) - ctx.profile.target_energy))
                 + (100 - Abs(GetOrHalf(feat.valence) - ctx.profile.target_valence))
                 + (100 - Abs(GetOrHalf(feat.danceability) - ctx.profile.target_danceability))
              ELSE 0
    IN s1 + s2 + s3

\* af_map.get(id)
DictGet(d, k) == IF k \in DOMAIN d THEN d[k] ELSE None

\* main.py:384  the sort key of a candidate
SortKey(t, af_map, ctx) == score_track(t, DictGet(af_map, t.id), ctx)

\* sorted(..., reverse=True) puts x before an equal-keyed y that came before
\* x in the input only in a sort that is not stable; Python's is stable, with
\* reverse=True too: x goes after every element whose key is >= its own
GoesAfter_Unstable(kx, ky) == ky > kx

GoesAfter(kx, ky) == ky >= kx

\* sorted(key=...) computes the key of every element once, before sorting:
\* the elements with their keys
RECURSIVE Keyed(_, _, _)
Keyed(results, af_map, ctx) ==
    IF results = <<>> THEN <<>>
    ELSE Append(Keyed(SubSeq(results, 1, Len(results) - 1), af_map, ctx),
                [key |-> SortKey(results[Len(results)], af_map, ctx),
                 item |-> results[Len(results)]])

\* insert x into a sorted list, after the elements it goes after
RECURSIVE InsertSorted(_, _)
InsertSorted(x, sorted) ==
    IF sorted = <<>> THEN <<x>>
    ELSE IF GoesAfter(x.key, Head(sorted).key)
         THEN <<Head(sorted)>> \o InsertSorted(x, Tail(sorted))
         ELSE <<x>> \o sorted

\* the keyed elements in sorted order
RECURSIVE SortKeyed(_)
SortKeyed(keyed) ==
    IF keyed = <<>> THEN <<>>
    ELSE InsertSorted(keyed[Len(keyed)], SortKeyed(SubSeq(keyed, 1, Len(keyed) - 1)))

\* main.py:384  sorted(results, key=..., reverse=True)
SortedDesc(results, af_map, ctx) ==
    LET ordered == SortKeyed(Keyed(results, af_map, ctx))
    IN [k \in 1 .. Len(ordered) |-> ordered[k].item]

\* main.py:377-382  the ranking context
Context(taste, key, top_artists, vibeText) ==
    [liked_artists |-> IF key \in DOMAIN taste THEN taste[key].liked_artists ELSE {},
     top_artists |-> {Lower(top_artists[k]) : k \in 1 .. Len(top_artists)},
     profile |-> target_audio_profile(vibeText)]

(***************************************************************************)
(* Vibe parsing (main.py:131-150).                                         *)
(***************************************************************************)
\* list(set(genres)): the elements in the set's iteration order.  The order
\* of a set of str follows the strings' hashes, which Python draws anew for
\* every process (hash randomisation); `order` is the order of this process.
ListOfSet(elements, order) == SelectSeq(order, LAMBDA x : x \in elements)

\* the iteration orders a process may have for the genre names
HashOrders == {<<"lofi", "edm">>, <<"edm", "lofi">>}

\* Era()
NoEra == [frm |-> None, to |-> None]

\* the values of VibeParseIn.explicitAllowed, an Optional[bool]
Flags == {"True", "False", "None"}

\* main.py:131-146.  VibeRules(explicitAllowed=...) validates a bool: None,
\* which VibeParseIn.explicitAllowed admits, raises a ValidationError
heuristic_parse(vibe, explicit_allowed, order) ==
    LET t == Lower(vibe)
        g1 == IF \/ Contains(t, <<"c", "h", "i", "l", "l">>) \/ Contains(t, <<"l", "o", "f", "i">>)
                 \/ Contains(t, <<"s", "t", "u", "d", "y">>) \/ Contains(t, <<"f", "o", "c", "u", "s">>)
              THEN <<"lofi">> ELSE <<>>
        genres == IF Contains(t, <<"p", "a", "r", "t", "y">>) \/ Contains(t, <<"d", "a", "n", "c", "e">>)
                  THEN Append(g1, "edm") ELSE g1
        era == IF Contains(t, <<"2", "0", "1", "0">>) \/ Contains(t, <<"2", "0", "1", "0", "s">>)
               THEN [frm |-> 2010, to |-> 2019] ELSE NoEra
        flag == IF Contains(t, <<"n", "o", " ", "e", "x", "p", "l", "i", "c", "i", "t">>) THEN "False" ELSE explicit_allowed
        listed == ListOfSet(Range(genres), order)
    IN IF flag = "None" THEN [raised |-> "ValidationError"]
       ELSE [includeGenres |-> IF listed # <<>> THEN listed ELSE <<"pop">>,
             excludeGenres |-> <<>>, era |-> era, explicitAllowed |-> flag]

(***************************************************************************)
(* Inputs of the pipeline: what the catalog and the language model answer. *)
(***************************************************************************)
\* largest requested count
MaxCount == 3

Counts == (-1) .. MaxCount

VibeTexts == {<<"H", "a", "p", "p", "y", " ", "P", "a", "r", "t", "y">>}

\* catalog track objects; track 3 is a local file, not a catalog track URI
CatalogTracks ==
    {[id |-> 1, uri |-> TrackUriPrefix \o <<"1">>, artists |-> <<<<"A", "b">>>>],
     [id |-> 2, uri |-> TrackUriPrefix \o <<"2">>, artists |-> <<<<"c", "d">>, <<"E", "f">>>>],
     [id |-> 3, uri |-> <<"s", "p", "o", "t", "i", "f", "y", ":", "l", "o", "c", "a", "l", ":", "3">>, artists |-> <<<<"g", "h">>>>]}

\* answers of GET /v1/me/top/artists: the artists' names
TopArtistLists == {<<>>, <<<<"A", "b">>>>, <<<<"A", "b">>, <<"g", "h">>>>}

TopAnswers ==
    {[status |-> "401", items |-> <<>>], [status |-> "error", items |-> <<>>]}
    \cup {[status |-> "ok", items |-> l] : l \in TopArtistLists}

\* the language model: no key configured, a failed or malformed answer, or
\* the `query` fields of the items it returned
LlmItemLists ==
    {<<>>,
     <<<<" ">>>>,
     <<<<"q", "1">>, <<"\"">>, <<" ", "q", "2">>, <<"q", "3">>>>}

LlmOutcomes ==
    {[kind |-> "nokey", items |-> <<>>], [kind |-> "fail", items |-> <<>>]}
    \cup {[kind |-> "items", items |-> l] : l \in LlmItemLists}

\* answers of GET /v1/search with limit 1: 401, another failure (network,
\* non-2xx, malformed), or the items found
SearchAnswers ==
    {[status |-> "401", items |-> <<>>], [status |-> "error", items |-> <<>>],
     [status |-> "ok", items |-> <<>>]}
    \cup {[status |-> "ok", items |-> <<t>>] : t \in CatalogTracks}

\* an audio-features object as the catalog returns it
Features(id) ==
    [id |-> id, energy |-> IF id % 2 = 1 THEN 80 ELSE 30, valence |-> 30,
     danceability |-> Missing]

\* answers of GET /v1/audio-features for a chunk of ids: 401, 403, another
\* failure, or a payload with features for all, none or the first of the ids
\* (the others null)
AfAnswers(chunk) ==
    {[status |-> s, audio_features |-> <<>>] : s \in {"401", "403", "error"}}
    \cup {[status |-> "ok", audio_features |-> [k \in 1 .. Len(chunk) |-> Features(chunk[k])]],
          [status |-> "ok", audio_features |-> [k \in 1 .. Len(chunk) |-> None]],
          [status |-> "ok", audio_features |->
              [k \in 1 .. Len(chunk) |-> IF k = 1 THEN Features(chunk[k]) ELSE None]]}

\* answers of the playlist create and append calls
WriteAnswers == {"401", "error", "ok"}

\* trackUris of a create_playlist_from_tracks request
MaxUris == 3

UriPool ==
    {TrackUriPrefix \o <<"1">>, TrackUriPrefix \o <<"2">>, <<"s", "p", "o", "t", "i", "f", "y", ":", "l", "o", "c", "a", "l", ":", "3">>, <<"s", "p", "o", "t", "i", "f", "y", ":", "t", "r", "a", "c", "k">>}

\* the pattern repeated up to length n
RepeatTo(pattern, n) == [k \in 1 .. n |-> pattern[((k - 1) % Len(pattern)) + 1]]

\* lists that need more than one append call
LongUriLists ==
    {RepeatTo(pattern, n) :
        pattern \in {<<TrackUriPrefix \o <<"1">>>>,
                     <<TrackUriPrefix \o <<"1">>, <<"s", "p", "o", "t", "i", "f", "y", ":", "l", "o", "c", "a", "l", ":", "3">>, TrackUriPrefix \o <<"2">>>>},
        n \in {ChunkSize + 1, 2 * ChunkSize + 1}}

UriLists == UNION {[1 .. n -> UriPool] : n \in 0 .. MaxUris} \cup LongUriLists

(***************************************************************************)
(* Frames of the pipeline's coroutines, HTTP answers, and the call log.    *)
(***************************************************************************)
NoResponse == [status |-> 0, detail |-> "", body |-> None]

\* raise HTTPException(status, detail); an exception other than
\* HTTPException leaves a handler as status 500
Raise(status, detail) == [status |-> status, detail |-> detail, body |-> None]

\* return body
Ok(body) == [status |-> 200, detail |-> "", body |-> body]

IdleTop == [pc |-> "idle", user |-> "", response |-> NoResponse]

IdleGen ==
    [pc |-> "idle", user |-> "", vibeText |-> <<>>, count |-> 0, token |-> 0,
     top_artists |-> <<>>, llm |-> None, suggestions |-> <<>>, i |-> 0,
     results |-> <<>>,
     seen |-> {}, liked_live |-> FALSE, response |-> NoResponse]

IdleAf ==
    [pc |-> "idle", token |-> 0, ids |-> <<>>, i |-> 0, af_map |-> EmptyDict,
     result |-> EmptyDict, raised |-> 0]

IdlePw ==
    [pc |-> "idle", user |-> "", token |-> 0, trackUris |-> <<>>, uris |-> <<>>,
     i |-> 0, playlist_id |-> 0, response |-> NoResponse]

IdleOc ==
    [pc |-> "idle", user |-> "", vibeText |-> <<>>, count |-> 0, response |-> NoResponse]

\* no helper was called yet
IdleFn == [pc |-> "idle", name |-> "", args |-> <<>>, result |-> None]

AllIdle ==
    /\ top.pc = "idle" /\ gen.pc = "idle" /\ af.pc = "idle"
    /\ pw.pc = "idle" /\ oc.pc = "idle"

\* a catalog call goes out with the bearer token read from `user`'s record
Sent(log, api, user, token, arg) ==
    Append(log, [api |-> api, user |-> user, token |-> token, arg |-> arg,
                 answer |-> "pending", got |-> <<>>])

\* the answer to the call in flight (calls are sequential: it is the last)
Answered(log, status, got) ==
    [log EXCEPT ![Len(log)].answer = status, ![Len(log)].got = got]

\* the classes of the exceptions raised in the pipeline; all derive from
\* Exception, fastapi's HTTPException included
ExceptionClasses == {"HTTPException", "HTTPStatusError", "RequestError", "ValueError"}

\* `except Exception:` (main.py:270, 327, 370)
ExceptExceptionCatches(exc) == exc \in ExceptionClasses

\* tokens = TOKEN_STORE.get(key), None when the user has no record
LookupTokens_AnyRecord(store, key) ==
    IF key \in DOMAIN store THEN store[key]
    ELSE IF DOMAIN store # {} THEN store[CHOOSE k \in DOMAIN store : TRUE]
    ELSE None

LookupTokens(store, key) == DictGet(store, key)

(***************************************************************************)
(* top_artists (main.py:191-204)                                           *)
(***************************************************************************)
top_artists_Call ==
    /\ AllIdle
    /\ \E user \in Users :
         LET tokens == LookupTokens(TOKEN_STORE, Key(user))
         IN IF tokens = None
            THEN /\ top' = [pc |-> "done", user |-> user,
                            response |-> Raise(401, "not logged in")]
                 /\ UNCHANGED calls
            ELSE /\ top' = [pc |-> "call", user |-> user, response |-> NoResponse]
                 /\ calls' = Sent(calls, "top_artists", user, tokens.access_token, <<>>)
    /\ UNCHANGED <<gen, af, pw, oc, playlists, TOKEN_STORE, USER_TASTE, authVars, ta, fn>>

top_artists_Answer ==
    /\ top.pc = "call"
    /\ \E ans \in TopAnswers :
         /\ top' = [top EXCEPT !.pc = "done", !.response =
                      IF ans.status = "401" THEN Raise(401, "token expired")
                      ELSE IF ans.status = "error" THEN Raise(500, "")
                      ELSE Ok(ans.items)]
         /\ calls' = Answered(calls, ans.status, <<>>)
    /\ UNCHANGED <<gen, af, pw, oc, playlists, TOKEN_STORE, USER_TASTE, authVars, ta, fn>>

(***************************************************************************)
(* create_playlist_from_tracks (main.py:399-435).  `o` is the frame of the *)
(* one_click_playlist call that awaits it, idle when it is the handler.    *)
(***************************************************************************)
\* main.py:422  [u for u in body.trackUris if u.startswith("spotify:track:")]
IsTrackUri(u) == StartsWith(u, TrackUriPrefix)

ValidUris_KeepsAll(trackUris) == trackUris

ValidUris(trackUris) == SelectSeq(trackUris, IsTrackUri)

\* main.py:463  what one_click_playlist makes of the writer's answer
OneClickDone(o, resp) ==
    [o EXCEPT !.pc = "done", !.response =
        IF resp.status = 200 THEN Ok([url |-> resp.body.url, count |-> resp.body.added])
        ELSE resp]

PwStay(o, p, log, pls) ==
    /\ pw' = p
    /\ calls' = log
    /\ playlists' = pls
    /\ oc' = o

PwLeave(o, p, resp, log, pls) ==
    /\ pw' = [p EXCEPT !.pc = "done", !.response = resp]
    /\ calls' = log
    /\ playlists' = pls
    /\ oc' = IF o.pc = "active" THEN OneClickDone(o, resp) ELSE o

\* main.py:400-414  up to the await of the create call
PwEnter(o, user, trackUris, log) ==
    LET p == [IdlePw EXCEPT !.user = user, !.trackUris = trackUris]
        tokens == LookupTokens(TOKEN_STORE, Key(user))
    IN IF tokens = None
       THEN PwLeave(o, p, Raise(401, "not logged in"), log, playlists)
       ELSE PwStay(o, [p EXCEPT !.pc = "create", !.token = tokens.access_token],
                   Sent(log, "create_playlist", user, tokens.access_token, user),
                   playlists)

\* main.py:435
PwResult(p) ==
    Ok([playlistId |-> p.playlist_id, url |-> <<"url", p.playlist_id>>,
        added |-> Len(p.uris)])

\* main.py:425-431  the append call for the chunk at offset p.i
SendAppend_WholeRest(p, log) ==
    Sent(log, "add_tracks", p.user, p.token,
         [playlist_id |-> p.playlist_id, uris |-> SubSeq(p.uris, p.i + 1, Len(p.uris))])

SendAppend(p, log) ==
    Sent(log, "add_tracks", p.user, p.token,
         [playlist_id |-> p.playlist_id, uris |-> Chunk(p.uris, p.i, ChunkSize)])

\* main.py:415-431  the create call's answer
create_playlist_CreateAnswer ==
    /\ pw.pc = "create"
    /\ \E ans \in WriteAnswers :
         LET log == Answered(calls, ans, <<>>)
         IN IF ans = "401" THEN PwLeave(oc, pw, Raise(401, "token expired"), log, playlists)
            ELSE IF ans = "error" THEN PwLeave(oc, pw, Raise(500, ""), log, playlists)
            ELSE LET pls == Append(playlists, [owner |-> pw.user, tracks |-> <<>>])
                     p == [pw EXCEPT !.playlist_id = Len(pls),
                                     !.uris = ValidUris(pw.trackUris), !.i = 0]
                 IN IF p.uris # <<>>
                    THEN PwStay(oc, [p EXCEPT !.pc = "append"], SendAppend(p, log), pls)
                    ELSE PwLeave(oc, p, PwResult(p), log, pls)
    /\ UNCHANGED <<top, gen, af, TOKEN_STORE, USER_TASTE, authVars, ta, fn>>

\* main.py:432-435  an append call's answer
create_playlist_AppendAnswer ==
    /\ pw.pc = "append"
    /\ \E ans \in WriteAnswers :
         LET log == Answered(calls, ans, <<>>)
         IN IF ans = "401" THEN PwLeave(oc, pw, Raise(401, "token expired"), log, playlists)
            ELSE IF ans = "error" THEN PwLeave(oc, pw, Raise(500, ""), log, playlists)
            ELSE LET pls == [playlists EXCEPT ![pw.playlist_id].tracks =
                                @ \o Chunk(pw.uris, pw.i, ChunkSize)]
                     p == [pw EXCEPT !.i = @ + ChunkSize]
                 IN IF p.i < Len(p.uris)
                    THEN PwStay(oc, p, SendAppend(p, log), pls)
                    ELSE PwLeave(oc, p, PwResult(p), log, pls)
    /\ UNCHANGED <<top, gen, af, TOKEN_STORE, USER_TASTE, authVars, ta, fn>>

\* POST /playlist/create_from_tracks
create_playlist_from_tracks_Call ==
    /\ AllIdle
    /\ \E user \in Users, trackUris \in UriLists : PwEnter(oc, user, trackUris, calls)
    /\ UNCHANGED <<top, gen, af, TOKEN_STORE, USER_TASTE, authVars, ta, fn>>

(***************************************************************************)
(* vibe_generate_llm (main.py:285-387) with fetch_audio_features           *)
(* (main.py:234-274).  `o` is the frame of the one_click_playlist call     *)
(* that awaits the generation, idle when vibe_generate_llm is the handler. *)
(***************************************************************************)
\* main.py:449  gen["count"] == 0
NoTracks_Never(body) == FALSE

NoTracks(body) == body.count = 0

\* main.py:449-462  one_click_playlist once the generation has answered
OneClickResume(o, resp, log) ==
    IF resp.status # 200
    THEN /\ oc' = [o EXCEPT !.pc = "done", !.response = resp]
         /\ calls' = log
         /\ UNCHANGED <<pw, playlists>>
    ELSE IF NoTracks(resp.body)
    THEN /\ oc' = [o EXCEPT !.pc = "done", !.response = Raise(502, "no tracks found")]
         /\ calls' = log
         /\ UNCHANGED <<pw, playlists>>
    ELSE PwEnter(o, o.user,
                 ValidUris([k \in 1 .. Len(resp.body.tracks) |-> resp.body.tracks[k].uri]),
                 log)

GenStay(o, g, a, log) ==
    /\ gen' = g
    /\ af' = a
    /\ calls' = log
    /\ oc' = o
    /\ UNCHANGED <<pw, playlists>>

GenLeave(o, g, a, resp, log) ==
    /\ gen' = [g EXCEPT !.pc = "done", !.response = resp]
    /\ af' = a
    /\ IF o.pc = "active"
       THEN OneClickResume(o, resp, log)
       ELSE /\ calls' = log
            /\ oc' = o
            /\ UNCHANGED <<pw, playlists>>

\* main.py:384-387  rank, cut to count, return.  ctx["liked_artists"] is the
\* set object found in USER_TASTE before the fetch (main.py:377), read here.
GenAfterFetch(o, g, a, log) ==
    LET taste == IF g.liked_live THEN USER_TASTE ELSE EmptyDict
        ctx == Context(taste, Key(g.user), g.top_artists, g.vibeText)
        ranked == SliceTo(SortedDesc(g.results, a.result, ctx), g.count)
    IN GenLeave(o, g, a, Ok([count |-> Len(ranked), tracks |-> ranked]), log)

\* main.py:267-269  for x in payload: if x and x.get("id"): af_map[x["id"]] = x
\* (a later object with the same id replaces an earlier one)
MergeFeatures(af_map, audio_features) ==
    LET usable == {k \in 1 .. Len(audio_features) : audio_features[k] # None}
        ids == {audio_features[k].id : k \in usable}
        last(id) == CHOOSE k \in usable :
                        /\ audio_features[k].id = id
                        /\ \A m \in usable : audio_features[m].id = id => m <= k
    IN [id \in DOMAIN af_map \cup ids |->
          IF id \in ids THEN audio_features[last(id)] ELSE af_map[id]]

\* main.py:249-272  what one chunk's answer makes of the loop: "raise" (the
\* 401 leaves the function), "empty" (return {}), or "next"
FetchChunkFlow_SkipsFailedChunk(ans) ==
    IF ans.status = "401" THEN "empty" ELSE "next"

FetchChunkFlow(ans) ==
    IF ans.status = "401"
    THEN (IF ExceptExceptionCatches("HTTPException") THEN "empty" ELSE "raise")
    ELSE IF ans.status = "403" THEN "empty"
    ELSE IF ans.status = "error"
    THEN (IF ExceptExceptionCatches("HTTPStatusError") THEN "empty" ELSE "raise")
    ELSE "next"

\* main.py:247-254  the call for the chunk at offset a.i
SendChunk(a, user, log) ==
    Sent(log, "audio_features", user, a.token, Chunk(a.ids, a.i, ChunkSize))

\* fetch_audio_features has returned `result` or raised 401: its caller goes on
AfLeave(a, log) ==
    IF gen.pc = "af"
    THEN IF a.raised = 0 THEN GenAfterFetch(oc, gen, a, log)
         ELSE GenLeave(oc, gen, a, Raise(a.raised, "token expired"), log)
    ELSE /\ af' = a
         /\ calls' = log
         /\ UNCHANGED <<gen, oc, pw, playlists>>

\* main.py:256-274  the answer to a chunk's call
fetch_audio_features_Answer ==
    /\ af.pc = "chunk"
    /\ \E ans \in AfAnswers(Chunk(af.ids, af.i, ChunkSize)) :
         LET log == Answered(calls, ans.status, <<>>)
             flow == FetchChunkFlow(ans)
             a == [af EXCEPT !.af_map = MergeFeatures(@, ans.audio_features),
                             !.i = @ + ChunkSize]
         IN IF flow = "raise"
            THEN AfLeave([af EXCEPT !.pc = "done", !.raised = 401], log)
            ELSE IF flow = "empty"
            THEN AfLeave([af EXCEPT !.pc = "done", !.result = EmptyDict], log)
            ELSE IF a.i < Len(a.ids)
            THEN /\ af' = a
                 /\ calls' = SendChunk(a, calls[Len(calls)].user, log)
                 /\ UNCHANGED <<gen, oc, pw, playlists>>
            ELSE AfLeave([a EXCEPT !.pc = "done", !.result = a.af_map], log)
    /\ UNCHANGED <<top, TOKEN_STORE, USER_TASTE, authVars, ta, fn>>

\* main.py:239-254  fetch_audio_features up to its first await
AfEnter(token, ids) ==
    IF ids = <<>> THEN [IdleAf EXCEPT !.pc = "done", !.token = token]
    ELSE [IdleAf EXCEPT !.pc = "chunk", !.token = token, !.ids = ids]

\* main.py:373-383  after the search loop
GenAfterLoop(o, g, log) ==
    IF g.results = <<>>
    THEN GenLeave(o, g, af, Ok([count |-> 0, tracks |-> <<>>]), log)
    ELSE LET g1 == [g EXCEPT !.pc = "af", !.liked_live = Key(g.user) \in DOMAIN USER_TASTE]
             a == AfEnter(g.token, [k \in 1 .. Len(g.results) |-> g.results[k].id])
         IN IF a.pc = "done" THEN GenAfterFetch(o, g1, a, log)
            ELSE GenStay(o, g1, a, SendChunk(a, g.user, log))

\* main.py:341  q = s["query"].replace('"','').strip()
SearchQuery(suggestion) == Strip(RemoveChar(suggestion, "\""))

\* main.py:340-343  the next suggestion after index `from` with a query: 0 if none
NextQuery(suggestions, from) ==
    LET later == {k \in (from + 1) .. Len(suggestions) : SearchQuery(suggestions[k]) # <<>>}
    IN IF later = {} THEN 0 ELSE CHOOSE k \in later : \A m \in later : k <= m

\* main.py:340-349  the loop goes on after suggestion `from`
GenLoopFrom(o, g, from, log) ==
    LET k == NextQuery(g.suggestions, from)
    IN IF k = 0 THEN GenAfterLoop(o, g, log)
       ELSE GenStay(o, [g EXCEPT !.pc = "search", !.i = k], af,
                    Sent(log, "search", g.user, g.token, SearchQuery(g.suggestions[k])))

\* main.py:360-367  the candidate made of a catalog track object
Candidate(t) == [id |-> t.id, uri |-> t.uri, artist |-> Join(t.artists, <<",", " ">>)]

\* main.py:357-359  `if tid in seen: continue`
AlreadySeen_Never(tid, seen) == FALSE

AlreadySeen(tid, seen) == tid \in seen

\* main.py:350-371  what one search answer makes of the loop: the frame, and
\* "raise" (the 401 leaves the handler), "break", or "continue"
SearchStep_NeverBreaks(g, ans) ==
    IF ans.status # "ok" \/ ans.items = <<>> THEN [g |-> g, flow |-> "continue"]
    ELSE LET t == ans.items[1]
         IN IF AlreadySeen(t.id, g.seen) THEN [g |-> g, flow |-> "continue"]
            ELSE [g |-> [g EXCEPT !.seen = @ \cup {t.id},
                                  !.results = Append(@, Candidate(t))],
                  flow |-> "continue"]

SearchStep_FailureBreaks(g, ans) ==
    IF ans.status # "ok" \/ ans.items = <<>> THEN [g |-> g, flow |-> "break"]
    ELSE LET t == ans.items[1]
         IN IF AlreadySeen(t.id, g.seen) THEN [g |-> g, flow |-> "continue"]
            ELSE [g |-> [g EXCEPT !.seen = @ \cup {t.id},
                                  !.results = Append(@, Candidate(t))],
                  flow |-> "continue"]

SearchStep(g, ans) ==
    IF ans.status = "401"
    THEN [g |-> g, flow |-> IF ExceptExceptionCatches("HTTPException")
                            THEN "continue" ELSE "raise"]
    ELSE IF ans.status = "error"
    THEN [g |-> g, flow |-> IF ExceptExceptionCatches("HTTPStatusError")
                            THEN "continue" ELSE "raise"]
    ELSE IF ans.items = <<>> THEN [g |-> g, flow |-> "continue"]
    ELSE LET t == ans.items[1]
         IN IF AlreadySeen(t.id, g.seen) THEN [g |-> g, flow |-> "continue"]
            ELSE LET g1 == [g EXCEPT !.seen = @ \cup {t.id},
                                     !.results = Append(@, Candidate(t))]
                 IN [g |-> g1,
                     flow |-> IF Len(g1.results) >= Max(g.count, MinHeadroom)
                              THEN "break" ELSE "continue"]

\* the answer to the search call in flight, one of `answers`
vibe_generate_llm_SearchAnswerOf(answers) ==
    /\ gen.pc = "search"
    /\ \E ans \in answers :
         LET log == Answered(calls, ans.status,
                             [k \in 1 .. Len(ans.items) |-> ans.items[k].id])
             step == SearchStep(gen, ans)
         IN IF step.flow = "raise"
            THEN GenLeave(oc, gen, af, Raise(401, "token expired"), log)
            ELSE IF step.flow = "break" THEN GenAfterLoop(oc, step.g, log)
            ELSE GenLoopFrom(oc, step.g, gen.i, log)
    /\ UNCHANGED <<top, TOKEN_STORE, USER_TASTE, authVars, ta, fn>>

vibe_generate_llm_SearchAnswer == vibe_generate_llm_SearchAnswerOf(SearchAnswers)

\* main.py:323-326  the usable queries of the model's items
RECURSIVE UsableQueries(_)
UsableQueries(items) ==
    IF items = <<>> THEN <<>>
    ELSE (IF Strip(Head(items)) # <<>> THEN <<Strip(Head(items))>> ELSE <<>>)
         \o UsableQueries(Tail(items))

\* main.py:333  f'{a["name"]} {body.vibeText} -remix -live'
FallbackQuery(name, vibeText) == name \o <<" ">> \o vibeText \o <<" ", "-", "r", "e", "m", "i", "x", " ", "-", "l", "i", "v", "e">>

\* main.py:301-334  the suggestions' queries
Suggestions_NoFallback(llm, top_artists, vibeText, count) ==
    SliceTo(IF llm.kind = "items" THEN UsableQueries(llm.items) ELSE <<>>,
            Max(MinSuggestionCap, count * 2))

Suggestions(llm, top_artists, vibeText, count) ==
    LET fromLlm == IF llm.kind = "items" THEN UsableQueries(llm.items) ELSE <<>>
        firstTop == SliceTo(top_artists, TopArtistLimit)
        all == IF fromLlm # <<>> THEN fromLlm
               ELSE [k \in 1 .. Len(firstTop) |-> FallbackQuery(firstTop[k], vibeText)]
    IN SliceTo(all, Max(MinSuggestionCap, count * 2))

\* main.py:296-349  the top-artists answer, the (blocking) language-model
\* call with one of `outcomes`, and the first search
vibe_generate_llm_TopAnswerOf(outcomes) ==
    /\ gen.pc = "top"
    /\ \E ans \in TopAnswers, llm \in outcomes :
         LET log == Answered(calls, ans.status, <<>>)
         IN IF ans.status = "401"
            THEN GenLeave(oc, gen, af, Raise(401, "token expired"), log)
            ELSE IF ans.status = "error" THEN GenLeave(oc, gen, af, Raise(500, ""), log)
            ELSE GenLoopFrom(oc,
                    [gen EXCEPT !.top_artists = ans.items, !.llm = llm,
                                !.suggestions = Suggestions(llm, ans.items,
                                                            gen.vibeText, gen.count)],
                    0, log)
    /\ UNCHANGED <<top, TOKEN_STORE, USER_TASTE, authVars, ta, fn>>

vibe_generate_llm_TopAnswer == vibe_generate_llm_TopAnswerOf(LlmOutcomes)

\* main.py:286-295  up to the await of the top-artists call
GenEnter(o, user, vibeText, count) ==
    LET g == [IdleGen EXCEPT !.user = user, !.vibeText = vibeText, !.count = count]
        tokens == LookupTokens(TOKEN_STORE, Key(user))
    IN IF tokens = None
       THEN GenLeave(o, g, af, Raise(401, "not logged in"), calls)
       ELSE GenStay(o, [g EXCEPT !.pc = "top", !.token = tokens.access_token], af,
                    Sent(calls, "top_artists", user, tokens.access_token, <<>>))

\* POST /vibe/generate_llm
vibe_generate_llm_Call ==
    /\ AllIdle
    /\ \E user \in Users, vibeText \in VibeTexts, count \in Counts :
         GenEnter(oc, user, vibeText, count)
    /\ UNCHANGED <<top, TOKEN_STORE, USER_TASTE, authVars, ta, fn>>

\* POST /vibe/one_click_playlist (main.py:445-448)
one_click_playlist_Call ==
    /\ AllIdle
    /\ \E user \in Users, vibeText \in VibeTexts, count \in Counts :
         GenEnter([IdleOc EXCEPT !.pc = "active", !.user = user,
                                 !.vibeText = vibeText, !.count = count],
                  user, vibeText, count)
    /\ UNCHANGED <<top, TOKEN_STORE, USER_TASTE, authVars, ta, fn>>

(***************************************************************************)
(* The pipeline specification: one request of a pipeline handler, in a     *)
(* process where nobody or user u1 has logged in (the login handlers got   *)
(* it there, see Spec) and u1 may have submitted a taste.  Pipeline        *)
(* handlers write no store and share no local, so requests do not          *)
(* interact and the one request stands for each of them.                   *)
(***************************************************************************)
PipelineStores ==
    {[tokens |-> EmptyDict, taste |-> EmptyDict],
     [tokens |-> DictSet(EmptyDict, Key("u1"), [access_token |-> 1, user |-> "u1"]),
      taste |-> EmptyDict],
     [tokens |-> DictSet(EmptyDict, Key("u1"), [access_token |-> 1, user |-> "u1"]),
      taste |-> DictSet(EmptyDict, Key("u1"),
                        [liked_artists |-> {<<"e", "f">>}, liked_genres |-> {}])]}

InitPipeline ==
    /\ \E st \in PipelineStores :
         /\ TOKEN_STORE = st.tokens
         /\ USER_TASTE = st.taste
    /\ PKCE_STORE = EmptyDict
    /\ issued = 1
    /\ auth_urls = {}
    /\ cb = <<>>
    /\ token_reqs = <<>>
    /\ top = IdleTop
    /\ gen = IdleGen
    /\ af = IdleAf
    /\ pw = IdlePw
    /\ oc = IdleOc
    /\ calls = <<>>
    /\ playlists = <<>>
    /\ ta = <<>>
    /\ fn = IdleFn

NextPipeline ==
    \/ top_artists_Call
    \/ top_artists_Answer
    \/ vibe_generate_llm_Call
    \/ vibe_generate_llm_TopAnswer
    \/ vibe_generate_llm_SearchAnswer
    \/ fetch_audio_features_Answer
    \/ create_playlist_from_tracks_Call
    \/ create_playlist_CreateAnswer
    \/ create_playlist_AppendAnswer
    \/ one_click_playlist_Call

SpecPipeline == InitPipeline /\ [][NextPipeline]_vars

(***************************************************************************)
(* The fetch specification: fetch_audio_features called with a token and   *)
(* the ids 1..n, for lists of up to three chunks.                          *)
(***************************************************************************)
\* longest id list
MaxIds == 201

fetch_audio_features_Call ==
    /\ AllIdle
    /\ \E n \in 0 .. MaxIds :
         LET a == AfEnter(1, [k \in 1 .. n |-> k])
         IN /\ af' = a
            /\ calls' = IF a.pc = "chunk" THEN SendChunk(a, "u1", calls) ELSE calls
    /\ UNCHANGED <<top, gen, pw, oc, playlists, TOKEN_STORE, USER_TASTE, authVars, ta, fn>>

InitFetch ==
    /\ InitPipeline
    /\ Key("u1") \in DOMAIN TOKEN_STORE
    /\ USER_TASTE = EmptyDict

NextFetch ==
    \/ fetch_audio_features_Call
    \/ fetch_audio_features_Answer

SpecFetch == InitFetch /\ [][NextFetch]_vars

(***************************************************************************)
(* The resolver specification: one generation asked for enough tracks that *)
(* the suggestions outnumber the resolver's early-stop threshold, with a   *)
(* language model that returns more items than the cap admits and a        *)
(* catalog that finds a new track for every query.                         *)
(***************************************************************************)
\* the requested count: 2 * BigCount exceeds max(BigCount, 20)
BigCount == 11

\* searches of one generation that bring no new track
MaxMisses == 1

\* more items than max(5, 2 * BigCount), among them a query in quotes
LongLlmOutcomes ==
    {[kind |-> "items",
      items |-> RepeatTo(<<<<"q", "1">>, <<"\"", "q", "2", "\"">>>>, 2 * BigCount + 3)]}

\* the track the catalog finds for the query of suggestion k
FoundTrack(k) == [id |-> k, uri |-> TrackUriPrefix \o <<"n">>, artists |-> <<<<"A", "b">>>>]

\* answers to the search for suggestion g.i: a track no earlier search
\* found or, MaxMisses times, no hit or the first track again
LongSearchAnswers(g, log) ==
    LET answered == Cardinality({k \in 1 .. Len(log) :
                        log[k].api = "search" /\ log[k].answer # "pending"})
    IN {[status |-> "ok", items |-> <<FoundTrack(g.i)>>]}
       \cup (IF answered - Len(g.results) < MaxMisses
             THEN {[status |-> "ok", items |-> <<>>],
                   [status |-> "ok", items |-> <<FoundTrack(1)>>]}
             ELSE {})

vibe_generate_llm_CallBig ==
    /\ AllIdle
    /\ \E user \in Users, vibeText \in VibeTexts : GenEnter(oc, user, vibeText, BigCount)
    /\ UNCHANGED <<top, TOKEN_STORE, USER_TASTE, authVars, ta, fn>>

vibe_generate_llm_TopAnswerLong == vibe_generate_llm_TopAnswerOf(LongLlmOutcomes)

vibe_generate_llm_SearchAnswerLong ==
    vibe_generate_llm_SearchAnswerOf(LongSearchAnswers(gen, calls))

NextResolver ==
    \/ vibe_generate_llm_CallBig
    \/ vibe_generate_llm_TopAnswerLong
    \/ vibe_generate_llm_SearchAnswerLong
    \/ fetch_audio_features_Answer

\* user u1 has logged in and submitted a taste
InitResolver ==
    /\ InitPipeline
    /\ TOKEN_STORE # EmptyDict
    /\ USER_TASTE # EmptyDict

SpecResolver == InitResolver /\ [][NextResolver]_vars

(***************************************************************************)
(* Claims about the pipeline, checked under SpecPipeline and SpecFetch.    *)
(***************************************************************************)
CallsOf(api) == {k \in 1 .. Len(calls) : calls[k].api = api}

IsWriteCall(c) == c.api \in {"create_playlist", "add_tracks"}

IsSearchHit(c) == c.api = "search" /\ c.answer = "ok" /\ c.got # <<>>

\* the number of URIs sent in the append calls numbered up to k
RECURSIVE UrisSent(_)
UrisSent(k) ==
    IF k = 0 THEN 0
    ELSE UrisSent(k - 1) + (IF calls[k].api = "add_tracks" THEN Len(calls[k].arg.uris) ELSE 0)

GenReturned == gen.pc = "done" /\ gen.response.status = 200

\* C2: a search answered 401 ends the generation at once with the re-login
\* error: the call is the last one sent, and the handler has raised 401.
C2_Search401Terminates ==
    \A k \in CallsOf("search") :
        calls[k].answer = "401"
            => /\ k = Len(calls)
               /\ gen.pc = "done"
               /\ gen.response.status = 401

\* C3: an audio-features chunk answered 401 makes the generation fail with
\* the re-login error, instead of ranking without features.
C3_Fetch401FailsGenerate ==
    \A k \in CallsOf("audio_features") :
        (calls[k].answer = "401" /\ gen.pc # "idle")
            => /\ gen.pc = "done"
               /\ gen.response.status = 401

\* the first occurrences of a sequence's elements, in order
RECURSIVE FirstOccurrences(_)
FirstOccurrences(seq) ==
    IF seq = <<>> THEN <<>>
    ELSE LET front == FirstOccurrences(SubSeq(seq, 1, Len(seq) - 1))
             last == seq[Len(seq)]
         IN IF last \in Range(front) THEN front ELSE Append(front, last)

\* the ids of the first hits of the searches answered so far, in call order
HitIds ==
    LET hits == SelectSeq(calls, IsSearchHit)
    IN [k \in 1 .. Len(hits) |-> hits[k].got[1]]

\* C4: whatever the searches answer, the resolver's candidates have pairwise
\* distinct ids and are the first occurrences, in order, of the ids the
\* successful searches returned as their first hit.
C4_DedupFirstSeen ==
    LET ids == [k \in 1 .. Len(gen.results) |-> gen.results[k].id]
    IN /\ \A a, b \in 1 .. Len(ids) : ids[a] = ids[b] => a = b
       /\ ids = FirstOccurrences(HitIds)

\* C4 witness: three searches hit, two of them the same track
C4_Witness ==
    /\ gen.pc = "done"
    /\ Len(HitIds) = 3
    /\ Len(gen.results) = 2

\* C5: fetch_audio_features is all-or-nothing.  For no ids it returns {} and
\* calls nothing; a chunk answered 403 or with another non-authorization
\* failure is the last chunk fetched and the function returns {}, whatever
\* the earlier chunks brought.
C5_FetchAllOrNothing ==
    /\ (af.pc = "done" /\ af.ids = <<>>) => (af.result = EmptyDict /\ calls = <<>>)
    /\ \A k \in CallsOf("audio_features") :
         calls[k].answer \in {"403", "error"}
            => /\ k = Len(calls)
               /\ af.pc = "done"
               /\ af.raised = 0
               /\ af.result = EmptyDict

\* C5 witness: two chunks brought features, the third failed
C5_Witness ==
    /\ af.pc = "done"
    /\ Len(calls) = 3
    /\ calls[1].answer = "ok" /\ calls[2].answer = "ok" /\ calls[3].answer = "error"
    /\ af.af_map # EmptyDict
    /\ af.result = EmptyDict

\* every catalog call carries the token of the record of the user it is for
C6_CallsAuthorized ==
    \A k \in 1 .. Len(calls) :
        /\ Key(calls[k].user) \in DOMAIN TOKEN_STORE
        /\ calls[k].token = TOKEN_STORE[Key(calls[k].user)].access_token

\* a handler entered for a user without a record answers 401 in that step,
\* having called nothing and changed no store
C6_Rejects(frame, frameNext) ==
    (frame.pc = "idle" /\ frameNext.pc # "idle"
        /\ Key(frameNext.user) \notin DOMAIN TOKEN_STORE)
        => /\ frameNext.pc = "done"
           /\ frameNext.response = Raise(401, "not logged in")
           /\ UNCHANGED <<calls, playlists, PKCE_STORE, TOKEN_STORE, USER_TASTE>>

\* C6: credential gating.  No catalog call is ever sent for a user identity
\* without a record in TOKEN_STORE, and top_artists, vibe_generate_llm,
\* create_playlist_from_tracks and one_click_playlist called for such a user
\* fail with 401 before any external call, all stores unchanged.
C6_CredentialGating ==
    /\ []C6_CallsAuthorized
    /\ [][ /\ C6_Rejects(top, top')
           /\ C6_Rejects(gen, gen')
           /\ C6_Rejects(pw, pw')
           /\ C6_Rejects(oc, oc') ]_vars

\* C6 witness: with u1 logged in, a one-click request for a user who is not
C6_Witness ==
    /\ TOKEN_STORE # EmptyDict
    /\ oc.pc = "done"
    /\ Key(oc.user) \notin DOMAIN TOKEN_STORE
    /\ oc.response.status = 401
    /\ calls = <<>>

\* C8: a successful create_playlist_from_tracks has created one playlist and
\* appended to it exactly the entries of trackUris that start with
\* "spotify:track:", in input order and with their multiplicity (the k-th
\* valid entry is the playlist's k-th track); `added` is their number, and
\* the number of URIs sent in the append calls.
C8_WriterAppendsValidUris ==
    (pw.pc = "done" /\ pw.response.status = 200)
        => LET valid == {k \in 1 .. Len(pw.trackUris) : IsTrackUri(pw.trackUris[k])}
               rank(k) == Cardinality({m \in valid : m <= k})
           IN /\ Cardinality(CallsOf("create_playlist")) = 1
              /\ Len(playlists) = 1
              /\ Len(playlists[1].tracks) = Cardinality(valid)
              /\ \A k \in valid : playlists[1].tracks[rank(k)] = pw.trackUris[k]
              /\ pw.response.body.added = Cardinality(valid)
              /\ pw.response.body.added = UrisSent(Len(calls))

\* C8 witness: a list with invalid entries whose valid ones fill two chunks
C8_Witness ==
    /\ pw.pc = "done" /\ pw.response.status = 200
    /\ Cardinality(CallsOf("add_tracks")) = 2
    /\ \E k \in 1 .. Len(pw.trackUris) : ~IsTrackUri(pw.trackUris[k])

\* C9: in the one-click flow a playlist is created only once the generation
\* has returned at least one track; a generation of zero tracks ends in 502
\* with no playlist and no append; and on success the returned count is the
\* number of URIs appended to the one playlist created.
C9_OneClickNeedsTracks ==
    oc.pc # "idle"
        => /\ ((\E k \in 1 .. Len(calls) : IsWriteCall(calls[k])) \/ playlists # <<>>)
                => (GenReturned /\ gen.response.body.count >= 1
                                /\ gen.response.body.tracks # <<>>)
           /\ (GenReturned /\ gen.response.body.tracks = <<>>)
                => /\ oc.pc = "done"
                   /\ oc.response = Raise(502, "no tracks found")
                   /\ playlists = <<>>
                   /\ \A k \in 1 .. Len(calls) : ~IsWriteCall(calls[k])
           /\ (oc.pc = "done" /\ oc.response.status = 200)
                => /\ Len(playlists) = 1
                   /\ oc.response.body.count = Len(playlists[1].tracks)
                   /\ oc.response.body.count = UrisSent(Len(calls))

\* C9 witness: candidates were resolved, the requested count is 0, so no
\* track is returned and the one-click request ends in 502
C9_Witness ==
    /\ oc.pc = "done"
    /\ oc.response.status = 502
    /\ gen.count = 0
    /\ gen.results # <<>>

\* the score the ranker gave a candidate of the finished generation
RankScore(t) ==
    SortKey(t, af.result,
            Context(IF gen.liked_live THEN USER_TASTE ELSE EmptyDict,
                    Key(gen.user), gen.top_artists, gen.vibeText))

\* where the resolver put a candidate
ResolverPos(t) == CHOOSE k \in 1 .. Len(gen.results) : gen.results[k] = t

\* C10: the ranked tracks come in non-increasing score, and of two tracks
\* with the same score the one the resolver produced first comes first.
C10_RankerStable ==
    GenReturned
        => LET tracks == gen.response.body.tracks
           IN \A a, b \in 1 .. Len(tracks) :
                a < b => /\ tracks[a] \in Range(gen.results)
                         /\ RankScore(tracks[a]) >= RankScore(tracks[b])
                         /\ RankScore(tracks[a]) = RankScore(tracks[b])
                              => ResolverPos(tracks[a]) < ResolverPos(tracks[b])

\* C10 witness: three ranked tracks, two of them tied, in an order that is
\* not the resolver's
C10_Witness ==
    /\ GenReturned
    /\ Len(gen.response.body.tracks) = 3
    /\ gen.response.body.tracks # gen.results
    /\ \E a, b \in 1 .. 3 :
         a # b /\ RankScore(gen.response.body.tracks[a]) = RankScore(gen.response.body.tracks[b])

\* min(a, b)
Min(a, b) == IF a <= b THEN a ELSE b

\* the score-sorted candidates of the finished generation
RankedAll ==
    SortedDesc(gen.results, af.result,
               Context(IF gen.liked_live THEN USER_TASTE ELSE EmptyDict,
                       Key(gen.user), gen.top_artists, gen.vibeText))

\* C11: for every integer count and every non-empty list of n resolved
\* candidates, the generation returns at most count tracks, namely the first
\* min(count, n) entries of the score-sorted list, and the count field is
\* the length of the returned list.
C11_TruncatedToCount ==
    (GenReturned /\ gen.results # <<>>)
        => LET tracks == gen.response.body.tracks
           IN /\ Len(tracks) <= gen.count
              /\ tracks = SubSeq(RankedAll, 1, Min(gen.count, Len(gen.results)))
              /\ gen.response.body.count = Len(tracks)

(***************************************************************************)
(* The helpers on their own: POST /vibe/parse (main.py:148-150), which is  *)
(* heuristic_parse applied to the request, and target_audio_profile and    *)
(* score_track called as functions.  One call per behaviour.               *)
(***************************************************************************)
\* str.upper(), as a user may type a text
UpperChar(c) ==
    IF \E k \in 1 .. Len(LowerCase) : LowerCase[k] = c
    THEN UpperCase[CHOOSE k \in 1 .. Len(LowerCase) : LowerCase[k] = c]
    ELSE c

Upper(s) == [k \in 1 .. Len(s) |-> UpperChar(s[k])]

\* the words vibe texts are made of: the keywords the two parsers look for
\* (main.py:134-138, 213-216) and a word that is none of them
VibeWords ==
    <<<<"n", "i", "g", "h", "t", " ", "d", "r", "i", "v", "e">>, <<"m", "o", "o", "d", "y">>, <<"c", "h", "i", "l", "l">>, <<"l", "o", "f", "i">>,
      <<"s", "t", "u", "d", "y">>, <<"f", "o", "c", "u", "s">>, <<"p", "a", "r", "t", "y">>, <<"d", "a", "n", "c", "e">>,
      <<"h", "a", "p", "p", "y">>, <<"2", "0", "1", "0">>, <<"2", "0", "1", "0", "s">>,
      <<"n", "o", " ", "e", "x", "p", "l", "i", "c", "i", "t">>, <<"j", "a", "z", "z">>>>

\* most words in a vibe text
MaxWords == 4

WordChoices == {S \in SUBSET (1 .. Len(VibeWords)) : Cardinality(S) <= MaxWords}

\* how a text is typed: the words in this order, in upper case, or reversed
TextStyles == {"plain", "upper", "reversed"}

\* the reverse of a sequence
Reverse(seq) == [k \in 1 .. Len(seq) |-> seq[Len(seq) + 1 - k]]

\* the vibe text made of the chosen words
TextOf(S, style) ==
    LET picked == SelectSeq([k \in 1 .. Len(VibeWords) |-> k], LAMBDA k : k \in S)
        words == [k \in 1 .. Len(picked) |-> VibeWords[picked[k]]]
        text == Join(IF style = "reversed" THEN Reverse(words) ELSE words, <<" ">>)
    IN IF style = "upper" THEN Upper(text) ELSE text

\* POST /vibe/parse
vibe_parse_Call ==
    /\ fn.pc = "idle"
    /\ \E S \in WordChoices, style \in TextStyles, flag \in Flags, order \in HashOrders :
         fn' = [pc |-> "done", name |-> "vibe_parse",
                args |-> [words |-> {VibeWords[k] : k \in S}, vibeText |-> TextOf(S, style),
                          explicitAllowed |-> flag, order |-> order],
                result |-> heuristic_parse(TextOf(S, style), flag, order)]
    /\ UNCHANGED <<PKCE_STORE, TOKEN_STORE, USER_TASTE, issued, auth_urls, cb,
                   token_reqs, pipeVars, ta>>

\* target_audio_profile(vibe_text)
target_audio_profile_Call ==
    /\ fn.pc = "idle"
    /\ \E S \in WordChoices, style \in TextStyles :
         fn' = [pc |-> "done", name |-> "target_audio_profile",
                args |-> [words |-> {VibeWords[k] : k \in S}, vibe_text |-> TextOf(S, style)],
                result |-> target_audio_profile(TextOf(S, style))]
    /\ UNCHANGED <<PKCE_STORE, TOKEN_STORE, USER_TASTE, issued, auth_urls, cb,
                   token_reqs, pipeVars, ta>>

\* artist names of the catalog, lower-cased
ArtistPool == {<<"a", "b">>, <<"c", "d">>}

\* most artists on a track
MaxNames == 2

NameLists == UNION {[1 .. n -> ArtistPool] : n \in 0 .. MaxNames}

\* the "artist" field of a candidate: the names joined as main.py:364 joins
\* them, or in upper case with blanks around the names
ArtistField(names, style) ==
    IF style = "upper"
    THEN Join([k \in 1 .. Len(names) |-> <<" ">> \o Upper(names[k]) \o <<" ", " ">>], <<",">>)
    ELSE Join(names, <<",", " ">>)

\* values of an audio feature, in hundredths, or the field left out
FeatureValues == {Missing, 0, 100}

\* af_map.get(id): None, or an audio-features object
FeatureInputs ==
    {None} \cup [energy : FeatureValues, valence : FeatureValues,
                 danceability : FeatureValues]

\* vibe texts whose profiles the contexts carry
ProfileTexts == {<<"j", "a", "z", "z">>, <<"m", "o", "o", "d", "y", " ", "h", "a", "p", "p", "y">>, <<"p", "a", "r", "t", "y">>}

\* score_track(t, af, ctx)
score_track_Call ==
    /\ fn.pc = "idle"
    /\ \E names \in NameLists, style \in {"plain", "upper"}, feat \in FeatureInputs,
          top_names \in SUBSET ArtistPool, liked \in SUBSET ArtistPool,
          text \in ProfileTexts :
         LET t == [artist |-> ArtistField(names, style)]
             ctx == [top_artists |-> top_names, liked_artists |-> liked,
                     profile |-> target_audio_profile(text)]
         IN fn' = [pc |-> "done", name |-> "score_track",
                   args |-> [names |-> names, t |-> t, af |-> feat, ctx |-> ctx],
                   result |-> score_track(t, feat, ctx)]
    /\ UNCHANGED <<PKCE_STORE, TOKEN_STORE, USER_TASTE, issued, auth_urls, cb,
                   token_reqs, pipeVars, ta>>

\* a string of blanks only, the empty string included
Blank(q) == \A k \in 1 .. Len(q) : q[k] \in Whitespace

\* the language model gave no usable suggestion: no key, a failed call or a
\* malformed answer, no item, or items with blank queries only
YieldsNothing(llm) ==
    \/ llm.kind # "items"
    \/ \A k \in 1 .. Len(llm.items) : Blank(llm.items[k])

\* the suggester has run: the top-artists call was answered with a list
SuggesterRan == gen.pc \in {"search", "af", "done"} /\ gen.llm # None

\* what the suggester hands to the resolver, by the model's outcome
C15_FallbackDefined ==
    SuggesterRan
        => /\ gen.top_artists # <<>> => gen.suggestions # <<>>
           /\ YieldsNothing(gen.llm)
                => /\ Len(gen.suggestions) = Min(Len(gen.top_artists), TopArtistLimit)
                   /\ \A k \in 1 .. Len(gen.suggestions) :
                        /\ gen.suggestions[k] =
                              gen.top_artists[k] \o <<" ">> \o gen.vibeText
                              \o <<" ", "-", "r", "e", "m", "i", "x", " ", "-", "l", "i", "v", "e">>
                        /\ \E c \in Range(gen.suggestions[k]) : c \notin Whitespace \cup {"\""}
           /\ (YieldsNothing(gen.llm) /\ gen.top_artists = <<>>)
                => /\ gen.suggestions = <<>>
                   /\ CallsOf("search") = {}
                   /\ gen.pc = "done"
                   /\ gen.response = Ok([count |-> 0, tracks |-> <<>>])

\* C15: whatever the language model does (no key, failure, malformed answer,
\* no items, blank queries only), the step that handles the top-artists list
\* does not fail the generation, and the suggestions handed to the resolver
\* are non-empty when the user has a top artist: the fallback has one
\* non-blank query per top artist, made of the artist's name and the vibe
\* text.  With no top artist and nothing from the model the list is empty
\* and the generation returns zero tracks, not an error.
C15_SuggesterNeverFails ==
    /\ []C15_FallbackDefined
    /\ [][ (gen.pc = "top" /\ gen'.llm # None)
              => ~(gen'.pc = "done" /\ gen'.response.status # 200) ]_vars

\* C15 witness: the model returned items with blank queries only, and the
\* two top artists gave the two suggestions that were searched
C15_Witness ==
    /\ SuggesterRan
    /\ gen.llm.kind = "items" /\ gen.llm.items # <<>>
    /\ YieldsNothing(gen.llm)
    /\ Len(gen.suggestions) = 2
    /\ Cardinality(CallsOf("search")) = 2

\* the suggestions after index `from` whose query is not blank once the
\* quote characters are removed
LaterQueries(from) ==
    {k \in (from + 1) .. Len(gen.suggestions) :
        \E c \in Range(gen.suggestions[k]) : c \notin Whitespace \cup {"\""}}

\* the search call in flight gets a failure that is not a 401, or no hits
SearchMisses ==
    /\ gen.pc = "search"
    /\ Len(calls') >= Len(calls)
    /\ \/ calls'[Len(calls)].answer = "error"
       \/ calls'[Len(calls)].answer = "ok" /\ calls'[Len(calls)].got = <<>>

\* C16: the resolver is best-effort.  A search that fails otherwise than
\* with 401, or finds nothing, skips that suggestion only: the candidates
\* resolved so far are kept, the next suggestion with a query is searched
\* in the same step, and when there is none the loop ends without failing
\* the generation.
C16_ResolverBestEffort ==
    [][ SearchMisses
          => /\ gen'.results = gen.results
             /\ IF LaterQueries(gen.i) # {}
                THEN /\ gen'.pc = "search"
                     /\ gen'.i = CHOOSE k \in LaterQueries(gen.i) :
                                     \A m \in LaterQueries(gen.i) : k <= m
                     /\ Len(calls') = Len(calls) + 1
                     /\ calls'[Len(calls')].api = "search"
                     /\ calls'[Len(calls')].answer = "pending"
                ELSE /\ gen'.pc \in {"af", "done"}
                     /\ gen'.pc = "af" <=> gen.results # <<>>
                     /\ gen'.pc = "done" => gen'.response.status = 200 ]_vars

\* C16 witness: a search hit, a failed search, then another hit: both
\* candidates were returned
C16_Witness ==
    /\ GenReturned
    /\ Len(calls) >= 5
    /\ IsSearchHit(calls[2])
    /\ calls[3].api = "search" /\ calls[3].answer = "error"
    /\ IsSearchHit(calls[4])
    /\ Len(gen.response.body.tracks) = 2

\* the number of append calls among the calls numbered up to k
AppendsUpTo(k) == Cardinality({j \in CallsOf("add_tracks") : j <= k})

\* C17: the writer appends after the create call has succeeded, one chunk
\* at a time (a call goes out only when all earlier calls are answered), the
\* n-th append call carrying the n-th run of at most 100 valid URIs in input
\* order.  An append answered 401 is the last call: the handler raises 401
\* and reports no added count, and the playlist stays, holding exactly the
\* chunks appended before.
C17_AppendsSequentialAbortOn401 ==
    LET valid == SelectSeq(pw.trackUris, IsTrackUri)
    IN \A k \in CallsOf("add_tracks") :
         LET n == AppendsUpTo(k)
             upTo == IF n * ChunkSize < Len(valid) THEN n * ChunkSize ELSE Len(valid)
         IN /\ \E c \in CallsOf("create_playlist") : c < k /\ calls[c].answer = "ok"
            /\ \A j \in 1 .. (k - 1) :
                 /\ calls[j].answer # "pending"
                 /\ IsWriteCall(calls[j]) => calls[j].answer = "ok"
            /\ Len(calls[k].arg.uris) \in 1 .. ChunkSize
            /\ calls[k].arg.uris = SubSeq(valid, (n - 1) * ChunkSize + 1, upTo)
            /\ calls[k].answer = "401"
                 => /\ k = Len(calls)
                    /\ pw.pc = "done"
                    /\ pw.response.status = 401
                    /\ pw.response.body = None
                    /\ Len(playlists) = 1
                    /\ playlists[1].tracks = SubSeq(valid, 1, (n - 1) * ChunkSize)

\* C17 witness: of three chunks the third is answered 401, and the playlist
\* keeps the two chunks appended before
C17_Witness ==
    /\ pw.pc = "done"
    /\ pw.response.status = 401
    /\ Cardinality(CallsOf("add_tracks")) = 3
    /\ calls[Len(calls)].answer = "401"
    /\ Len(playlists[1].tracks) = 2 * ChunkSize

\* C18: an append chunk that fails otherwise than with 401 is skipped: the
\* writer does not abort, and when valid URIs remain after the failed chunk
\* the next chunk's call follows.
C18_TransientAppendSkipped ==
    \A k \in CallsOf("add_tracks") :
        calls[k].answer = "error"
            => /\ ~(pw.pc = "done" /\ pw.response.status # 200)
               /\ AppendsUpTo(k) * ChunkSize < Len(SelectSeq(pw.trackUris, IsTrackUri))
                    => /\ k < Len(calls)
                       /\ calls[k + 1].api = "add_tracks"

\* the distinct tracks found by the searches numbered below k
FoundBefore(k) ==
    {calls[j].got[1] : j \in {i \in CallsOf("search") : i < k /\ IsSearchHit(calls[i])}}

\* C19: the resolver stops early.  No search is sent once the searches
\* answered have found max(count, 20) distinct tracks, so the candidates
\* never outnumber max(count, 20); and a generation sends at most one search
\* per suggestion, the suggestions being at most max(5, 2 * count).
C19_ResolverStopsEarly ==
    gen.pc # "idle"
        => LET threshold == IF gen.count >= 20 THEN gen.count ELSE 20
               cap == IF 2 * gen.count >= 5 THEN 2 * gen.count ELSE 5
           IN /\ \A k \in CallsOf("search") : Cardinality(FoundBefore(k)) < threshold
              /\ Len(gen.results) <= threshold
              /\ Cardinality(CallsOf("search")) <= Len(gen.suggestions)
              /\ Len(gen.suggestions) <= cap

\* C19 witness: the model returned more items than the cap admits, one
\* search found nothing new, and the twentieth track stopped the loop with
\* a suggestion left unsearched
C19_Witness ==
    /\ GenReturned
    /\ Len(gen.llm.items) > Len(gen.suggestions)
    /\ Len(gen.results) = 20
    /\ Cardinality(CallsOf("search")) = 21
    /\ Cardinality(CallsOf("search")) < Len(gen.suggestions)

(***************************************************************************)
(* The login specification: the state after import, and the auth handlers. *)
(***************************************************************************)
Init ==
    /\ PKCE_STORE = EmptyDict
    /\ TOKEN_STORE = EmptyDict
    /\ USER_TASTE = EmptyDict
    /\ issued = 0
    /\ auth_urls = {}
    /\ cb = <<>>
    /\ token_reqs = <<>>
    /\ top = IdleTop
    /\ gen = IdleGen
    /\ af = IdleAf
    /\ pw = IdlePw
    /\ oc = IdleOc
    /\ calls = <<>>
    /\ playlists = <<>>
    /\ ta = <<>>
    /\ fn = IdleFn

Next ==
    \/ auth_login
    \/ auth_callback_Reject
    \/ auth_callback_Accept
    \/ \E i \in 1 .. MaxCallbacks : i <= Len(cb) /\ auth_callback_Exchanged(i)
    \/ \E i \in 1 .. MaxCallbacks : i <= Len(cb) /\ auth_callback_Profile(i)

Spec == Init /\ [][Next]_vars

(***************************************************************************)
(* The taste specification: taste submissions on concurrent threads in a   *)
(* fresh process.                                                          *)
(***************************************************************************)
NextTaste ==
    \/ taste_accept_Call
    \/ \E i \in 1 .. MaxSubmissions : i <= Len(ta) /\ taste_accept_Update(i)
    \/ \E i \in 1 .. MaxSubmissions : i <= Len(ta) /\ taste_accept_Return(i)

SpecTaste == Init /\ [][NextTaste]_vars

(***************************************************************************)
(* The helpers' specification: one call of vibe_parse, of                  *)
(* target_audio_profile or of score_track in a fresh process.              *)
(***************************************************************************)
NextHelpers ==
    \/ vibe_parse_Call
    \/ target_audio_profile_Call
    \/ score_track_Call

SpecHelpers == Init /\ [][NextHelpers]_vars

(***************************************************************************)
(* Claims about the login handlers, checked under Spec.                    *)
(***************************************************************************)
\* the callbacks that passed main.py:71 and went on to the token exchange
Accepted(i) == cb[i].pc # "http400"

\* C1: a state token is single-use.  Once a callback with a stored state and
\* a non-empty code was accepted, every later callback carrying that state
\* is answered 400 and sends nothing to the token endpoint; so no state
\* token is ever exchanged twice, whether the first exchange or profile
\* fetch failed or is still in flight, and no credential record carries the
\* access token of a rejected callback.
C1_StateSingleUse ==
    /\ \A i, j \in 1 .. Len(cb) :
         (i < j /\ cb[i].state = cb[j].state /\ Accepted(i))
            => /\ cb[j].pc = "http400"
               /\ \A k \in 1 .. Len(token_reqs) : token_reqs[k].cb # j
               /\ \A key \in DOMAIN TOKEN_STORE : TOKEN_STORE[key].access_token # j
    /\ \A k, l \in 1 .. Len(token_reqs) :
         token_reqs[k].state = token_reqs[l].state => k = l

\* C1 witness: a state token is replayed, with a code, after its first
\* callback was accepted and then failed upstream; the replay is answered 400.
C1_Witness ==
    \E i, j \in 1 .. Len(cb) :
        /\ i < j /\ cb[i].state = cb[j].state /\ cb[j].code # ""
        /\ cb[i].pc = "http500" /\ cb[j].pc = "http400"

\* the completed logins of a user, as indexes of their callbacks
CompletedFor(user) ==
    {i \in 1 .. Len(cb) : cb[i].pc = "redirect" /\ cb[i].user = user}

\* the greatest element of a non-empty set of integers
MaxOf(S) == CHOOSE m \in S : \A x \in S : x <= m

\* C7 as stated: the stored record of a user is the one of the login
\* completed by the most recently accepted callback.
C7_LastAcceptedWins ==
    \A user \in Users :
        Key(user) \in DOMAIN TOKEN_STORE
            => TOKEN_STORE[Key(user)].access_token = MaxOf(CompletedFor(user))

\* C7 amended: one record per user identity, and the last writer wins.  The
\* store is keyed by the identities of users with a completed login; the step
\* of a login that stores its record leaves exactly that login's record under
\* the user's key, whatever record was there and whichever callback was
\* accepted first, and changes no other key.
C7_LastWriterWins ==
    [][ /\ DOMAIN TOKEN_STORE' = {Key(u) : u \in {x \in Users : CompletedFor(x)' # {}}}
        /\ \A i \in 1 .. Len(cb) :
             (cb[i].pc = "profile" /\ cb'[i].pc = "redirect")
                => /\ TOKEN_STORE'[Key(cb'[i].user)] =
                         [access_token |-> cb[i].access_token, user |-> cb'[i].user]
                   /\ \A key \in DOMAIN TOKEN_STORE :
                         key # Key(cb'[i].user) => TOKEN_STORE'[key] = TOKEN_STORE[key]
      ]_vars

\* C7 witness: the record of a user was overwritten by a login whose callback
\* was accepted before the callback of another completed login of that user.
C7_Witness ==
    \E user \in Users :
        /\ Key(user) \in DOMAIN TOKEN_STORE
        /\ \E j \in CompletedFor(user) : TOKEN_STORE[Key(user)].access_token < j

(***************************************************************************)
(* Claims about the helpers, checked under SpecHelpers.                    *)
(***************************************************************************)
HelperReturned(name) == fn.pc = "done" /\ fn.name = name

\* C12: without a feature vector score_track is 2.0 if one of the track's
\* comma-separated artist names (trimmed, lower-cased) is a top artist, plus
\* 1.5 if one is a liked artist: one of 0, 1.5, 2.0, 3.5, and 3.5 exactly
\* when both hold.  With a feature vector it adds three closeness terms, each
\* between 0 and 1, so that the score is at most 6.5.
C12_ScoreOverlapOnly ==
    HelperReturned("score_track")
        => LET names == Range(fn.args.names)
               ctx == fn.args.ctx
               feat == fn.args.af
               inTop == names \cap ctx.top_artists # {}
               inLiked == names \cap ctx.liked_artists # {}
               overlap == (IF inTop THEN 200 ELSE 0) + (IF inLiked THEN 150 ELSE 0)
               closeness(value, target) == 100 - Abs((IF value = Missing THEN 50 ELSE value) - target)
           IN IF feat = None
              THEN /\ fn.result = overlap
                   /\ fn.result \in {0, 150, 200, 350}
                   /\ (inTop /\ inLiked) <=> fn.result = 350
              ELSE LET e == closeness(feat.energy, ctx.profile.target_energy)
                       v == closeness(feat.valence, ctx.profile.target_valence)
                       d == closeness(feat.danceability, ctx.profile.target_danceability)
                   IN /\ {e, v, d} \subseteq 0 .. 100
                      /\ fn.result = overlap + e + v + d
                      /\ fn.result <= 650

\* C12 witness: a track whose names are typed in upper case with blanks
\* around them matches a top artist and a liked artist, has no feature
\* vector, and scores 3.5
C12_Witness ==
    /\ HelperReturned("score_track")
    /\ fn.args.af = None
    /\ fn.result = 350
    /\ Len(fn.args.names) = 2
    /\ fn.args.t.artist[1] = " "
    /\ fn.args.ctx.top_artists \cap fn.args.ctx.liked_artists = {}

\* the four keyword rules of the profile, in their order: the words that
\* trigger a rule and the fields it sets
ProfileRules ==
    <<[keys |-> {<<"n", "i", "g", "h", "t", " ", "d", "r", "i", "v", "e">>, <<"m", "o", "o", "d", "y">>},
       sets |-> [target_energy |-> 55, target_valence |-> 35, target_danceability |-> 60]],
      [keys |-> {<<"c", "h", "i", "l", "l">>, <<"l", "o", "f", "i">>},
       sets |-> [target_energy |-> 30, target_valence |-> 50, target_danceability |-> 50]],
      [keys |-> {<<"p", "a", "r", "t", "y">>, <<"d", "a", "n", "c", "e">>},
       sets |-> [target_energy |-> 80, target_valence |-> 70, target_danceability |-> 80]],
      [keys |-> {<<"h", "a", "p", "p", "y">>},
       sets |-> [target_valence |-> 80]]>>

\* the rules that match a text made of `words` and set `field`
RulesSetting(words, field) ==
    {k \in 1 .. Len(ProfileRules) :
        ProfileRules[k].keys \cap words # {} /\ field \in DOMAIN ProfileRules[k].sets}

\* C13: whatever rules a text matches, and however it is cased and ordered,
\* each field of target_audio_profile carries the value of the last matching
\* rule that sets the field, and 0.5 if no matching rule sets it; every field
\* is between 0 and 1; a text matching the moody and happy rules only has
\* valence 0.8 and energy 0.55.
C13_ProfileLastRuleWins ==
    HelperReturned("target_audio_profile")
        => LET words == fn.args.words
               prof == fn.result
           IN /\ DOMAIN prof = {"target_energy", "target_valence", "target_danceability"}
              /\ \A field \in DOMAIN prof :
                   /\ prof[field] \in 0 .. 100
                   /\ prof[field] = IF RulesSetting(words, field) = {} THEN 50
                                    ELSE ProfileRules[MaxOf(RulesSetting(words, field))].sets[field]
              /\ ({k \in 1 .. Len(ProfileRules) : ProfileRules[k].keys \cap words # {}} = {1, 4})
                   => (prof.target_valence = 80 /\ prof.target_energy = 55)

\* C13 witness: an upper-case text that matches all four rules
C13_Witness ==
    /\ HelperReturned("target_audio_profile")
    /\ \A k \in 1 .. Len(ProfileRules) : ProfileRules[k].keys \cap fn.args.words # {}
    /\ fn.args.vibe_text = Upper(fn.args.vibe_text)
    /\ fn.result = [target_energy |-> 80, target_valence |-> 80, target_danceability |-> 80]

\* C14: heuristic_parse never fails and its result is a function of the
\* keywords in the text: explicitAllowed is false when "no explicit" occurs
\* and the passed flag otherwise; includeGenres is lofi (for chill, lofi,
\* study, focus) and/or edm (for party, dance), lofi first, and [pop] when
\* neither occurs; era is 2010-2019 when a 2010s token occurs, else empty.
C14_HeuristicParseTotal ==
    HelperReturned("vibe_parse")
        => LET words == fn.args.words
               lofi == words \cap {<<"c", "h", "i", "l", "l">>, <<"l", "o", "f", "i">>, <<"s", "t", "u", "d", "y">>, <<"f", "o", "c", "u", "s">>} # {}
               edm == words \cap {<<"p", "a", "r", "t", "y">>, <<"d", "a", "n", "c", "e">>} # {}
           IN /\ "raised" \notin DOMAIN fn.result
              /\ fn.result.explicitAllowed =
                    IF <<"n", "o", " ", "e", "x", "p", "l", "i", "c", "i", "t">> \in words THEN "False" ELSE fn.args.explicitAllowed
              /\ fn.result.includeGenres =
                    (IF lofi THEN <<"lofi">> ELSE <<>>) \o (IF edm THEN <<"edm">> ELSE <<>>)
                    \o (IF ~lofi /\ ~edm THEN <<"pop">> ELSE <<>>)
              /\ fn.result.era =
                    IF words \cap {<<"2", "0", "1", "0">>, <<"2", "0", "1", "0", "s">>} # {}
                    THEN [frm |-> 2010, to |-> 2019] ELSE NoEra

(***************************************************************************)
(* Claims about the taste memory, checked under SpecTaste.                 *)
(***************************************************************************)
\* the lower-case form of the names submitted
LowerForm(name) ==
    CASE name = <<"A", "b">> -> <<"a", "b">>
      [] name = <<"a", "B">> -> <<"a", "b">>
      [] name = <<"c", "d">> -> <<"c", "d">>
      [] name = <<"P", "o", "p">> -> <<"p", "o", "p">>

\* the submissions of a user, and those whose two updates are through (the
\* completed ones among them)
SubmissionsOf(user) == {i \in 1 .. Len(ta) : ta[i].user = user}

UpdatedOf(user) ==
    {i \in SubmissionsOf(user) : ta[i].pc \in {"len_artists", "len_genres", "done"}}

\* the lower-cased artist names and genres of a set of submissions
ArtistsOf(S) ==
    UNION {{LowerForm(ta[i].artistNames[k]) : k \in 1 .. Len(ta[i].artistNames)} : i \in S}

GenresOf(S) ==
    UNION {{LowerForm(ta[i].genres[k]) : k \in 1 .. Len(ta[i].genres)} : i \in S}

\* a profile exists from the first submission of its user on, holds every
\* name of the submissions that are through and no name nobody submitted
C20_ProfileIsUnion ==
    \A user \in Users :
        /\ Key(user) \in DOMAIN USER_TASTE <=> SubmissionsOf(user) # {}
        /\ SubmissionsOf(user) # {}
             => LET rec == USER_TASTE[Key(user)]
                IN /\ ArtistsOf(UpdatedOf(user)) \subseteq rec.liked_artists
                   /\ rec.liked_artists \subseteq ArtistsOf(SubmissionsOf(user))
                   /\ GenresOf(UpdatedOf(user)) \subseteq rec.liked_genres
                   /\ rec.liked_genres \subseteq GenresOf(SubmissionsOf(user))

\* no step removes a profile or an element, and a step of no submission of a
\* user leaves that user's profile as it is
C20_StepGrows ==
    \A user \in Users :
        LET key == Key(user)
            still == \A i \in 1 .. Len(ta') :
                        ta'[i].user = user => (i <= Len(ta) /\ ta'[i] = ta[i])
        IN /\ key \in DOMAIN USER_TASTE
                => /\ key \in DOMAIN USER_TASTE'
                   /\ USER_TASTE[key].liked_artists \subseteq USER_TASTE'[key].liked_artists
                   /\ USER_TASTE[key].liked_genres \subseteq USER_TASTE'[key].liked_genres
           /\ still => /\ key \in DOMAIN USER_TASTE' <=> key \in DOMAIN USER_TASTE
                       /\ key \in DOMAIN USER_TASTE => USER_TASTE'[key] = USER_TASTE[key]

\* C20: the taste memory grows by set union.  Under every interleaving of
\* submissions, concurrent ones for the same user and the first, creating
\* one included, a user's liked artists and genres are the union of the
\* lower-cased names of that user's submissions (once they are through: no
\* submission is lost), no step removes an element or a profile, a
\* submission changes no other user's profile, and names submitted again in
\* another letter case change nothing.
C20_TasteGrowsByUnion ==
    /\ []C20_ProfileIsUnion
    /\ [][C20_StepGrows]_vars

\* C20 witness: a user submitted "Ab" and, before that call returned, "aB"
\* and "cd": the profile holds ab and cd, and the first call counted both
C20_Witness ==
    /\ Len(ta) = 2
    /\ ta[1].user = ta[2].user
    /\ ta[1].pc = "done" /\ ta[2].pc = "done"
    /\ ta[1].artistNames = <<<<"A", "b">>>>
    /\ ta[2].artistNames = <<<<"a", "B">>, <<"c", "d">>>>
    /\ USER_TASTE[Key(ta[1].user)].liked_artists = {<<"a", "b">>, <<"c", "d">>}
    /\ ta[1].counts.liked_artists = 2

(***************************************************************************)
(* Claims about the credential store and the PKCE binding, checked under   *)
(* Spec.                                                                   *)
(***************************************************************************)
\* callback i ends, in this step, with an error answer
EndsInError(i) ==
    /\ cb'[i].pc \in {"http400", "http500"}
    /\ i <= Len(cb) => cb[i].pc # cb'[i].pc

\* every record is the one of a callback that obtained a token, fetched the
\* profile and redirected
C21_RecordsOfCompletedLogins ==
    \A key \in DOMAIN TOKEN_STORE :
        \E i \in 1 .. Len(cb) :
            /\ cb[i].pc = "redirect"
            /\ cb[i].access_token # 0
            /\ key = Key(cb[i].user)
            /\ TOKEN_STORE[key] = [access_token |-> cb[i].access_token, user |-> cb[i].user]

\* a step keeps every key; a step in which a callback ends in 400 or 500
\* leaves the store as it is; a step that changes the store is the last one
\* of a callback holding an exchanged token, and changes that user's key only
C21_StepWritesOnSuccess ==
    /\ DOMAIN TOKEN_STORE \subseteq DOMAIN TOKEN_STORE'
    /\ \A i \in 1 .. Len(cb') : EndsInError(i) => TOKEN_STORE' = TOKEN_STORE
    /\ TOKEN_STORE' # TOKEN_STORE
         => \E i \in 1 .. Len(cb) :
              /\ cb[i].pc = "profile" /\ cb[i].access_token # 0
              /\ cb'[i].pc = "redirect"
              /\ \A key \in DOMAIN TOKEN_STORE :
                    key # Key(cb'[i].user) => TOKEN_STORE'[key] = TOKEN_STORE[key]

\* C21: a credential record is written only by a callback whose token
\* exchange and profile fetch both succeeded.  A callback answered 400, or
\* one whose exchange or profile fetch fails, leaves TOKEN_STORE unchanged,
\* the record of a user who is logged in included; and no step removes a
\* key, so the set of authenticated users never shrinks.
C21_WrittenOnSuccessOnly ==
    /\ []C21_RecordsOfCompletedLogins
    /\ [][C21_StepWritesOnSuccess]_vars

\* C21 witness: a user's record stands while one callback was answered 400,
\* and another exchanged its code and then failed to fetch the profile
C21_Witness ==
    \E i, j, k \in 1 .. Len(cb) :
        /\ cb[i].pc = "redirect"
        /\ TOKEN_STORE[Key(cb[i].user)].access_token = i
        /\ cb[j].pc = "http500" /\ cb[j].access_token = j
        /\ cb[k].pc = "http400"

\* the verifier goes with the state: its challenge is the one of the
\* authorization URL that carries the state
BoundTo(verifier, state) ==
    \E url \in auth_urls :
        url.state = state /\ url.code_challenge = code_challenge(verifier)

\* each state token was issued by one login, with one challenge; a pending
\* state holds the verifier of that login; a state that was issued is
\* pending unless a callback that carried it was accepted; every request to
\* the token endpoint carries the verifier of the state of its callback
C22_VerifierOfItsState ==
    /\ \A u1, u2 \in auth_urls : u1.state = u2.state => u1 = u2
    /\ \A url \in auth_urls, verifier \in Verifiers :
          BoundTo(verifier, url.state) <=> url.code_challenge = code_challenge(verifier)
    /\ \A state \in DOMAIN PKCE_STORE : BoundTo(PKCE_STORE[state].verifier, state)
    /\ \A state \in 1 .. issued :
          \/ state \in DOMAIN PKCE_STORE
          \/ \E i \in 1 .. Len(cb) : cb[i].state = state /\ Accepted(i)
    /\ \A k \in 1 .. Len(token_reqs) :
          /\ cb[token_reqs[k].cb].state = token_reqs[k].state
          /\ BoundTo(token_reqs[k].code_verifier, token_reqs[k].state)

\* a step leaves a pending state with its verifier, unless it is the
\* acceptance of a callback that carries this state
C22_StepKeepsPending ==
    \A state \in DOMAIN PKCE_STORE :
        \/ /\ state \in DOMAIN PKCE_STORE'
           /\ PKCE_STORE'[state] = PKCE_STORE[state]
        \/ /\ Len(cb') = Len(cb) + 1
           /\ cb'[Len(cb')].state = state
           /\ cb'[Len(cb')].pc = "exchange"

\* C22: PKCE binding.  Under every interleaving of pending logins, the
\* code_verifier that auth_callback sends to the token endpoint for a state
\* is the verifier generated by the auth_login that issued this state, the
\* one whose challenge is in that login's authorization URL, and never the
\* verifier of another state; a further login neither removes nor alters
\* the verifier of a pending state, which stays valid until a callback
\* carrying it is accepted.
C22_PkceBinding ==
    /\ []C22_VerifierOfItsState
    /\ [][C22_StepKeepsPending]_vars

\* C22 witness: two logins with different verifiers were pending together,
\* the callback of the second came first, and each exchange carried its own
\* verifier
C22_Witness ==
    /\ Len(token_reqs) = 2
    /\ token_reqs[1].state = 2 /\ token_reqs[2].state = 1
    /\ token_reqs[1].code_verifier # token_reqs[2].code_verifier
    /\ BoundTo(token_reqs[1].code_verifier, 2)
    /\ BoundTo(token_reqs[2].code_verifier, 1)

====
